---- MODULE Spec2Model ----
(***************************************************************************)
(* HttpClient of the Dynatrace API wrapper: makeRequest (one request, with *)
(* its then/catch handlers) and paginatedCall (the nextPageKey loop).      *)
(* JavaScript objects are functions over their own keys, so `k in o` and   *)
(* Object.keys(o).includes(k) are both  k \in DOMAIN o;  a value that is   *)
(* absent reads as Undefined.                                              *)
(***************************************************************************)
EXTENDS Integers, Sequences, FiniteSets, TLC

VARIABLES
  baseUrl,      \* HttpClient.baseUrl
  apiToken,     \* HttpClient.apiToken
  api,          \* which method the caller invoked: "none", "makeRequest", "paginatedCall"
  args,         \* the arguments of that invocation, as the caller passed them
  headersObj,   \* the headers object of the invocation (makeRequest writes into it)
  mrpc,         \* position of the running makeRequest
  wire,         \* the request configuration handed to axios.request
  transport,    \* how axios settled the request
  caught,       \* the value the .catch handler received
  mrResult,     \* what makeRequest resolved with or rejected with
  pgpc,         \* position of the running paginatedCall
  items,        \* paginatedCall: items
  nextPageKey,  \* paginatedCall: nextPageKey
  pgParams,     \* paginatedCall: params (reassigned inside the loop)
  pgResult,     \* what paginatedCall resolved with or rejected with
  sentLog,      \* every request configuration handed to axios so far, in order
  pagesLog,     \* every page paginatedCall received so far, in order
  outstanding,  \* requests handed to axios and not yet settled
  logs,         \* the entries written through logger.debug / logger.error, in order
  aborted,      \* whether the caller's AbortSignal has been aborted
  conc,         \* two makeRequest calls running on one client
  build,        \* position and locals of the running build workflow
  fsys,         \* the files the build workflow reads and writes
  tenant,       \* the Dynatrace tenant the build workflow talks to
  events,       \* what the build workflow showed or requested, in order
  child,        \* runCommand: the child process and the promise wrapped around it
  editor,       \* the text-change handler: its timer and what it has run
  topo,         \* getAttributesFromTopology: arguments and returned value
  sim,          \* loadDefaultSimulationConfig: settings and returned value
  ext           \* ExtensionsServiceV1.getExtensions: position and locals

vars == <<baseUrl, apiToken, api, args, headersObj, mrpc, wire, transport, caught,
          mrResult, pgpc, items, nextPageKey, pgParams, pgResult, sentLog, pagesLog,
          outstanding, logs, aborted, conc, build, fsys, tenant, events, child, editor,
          topo, sim, ext>>

\* The largest number of pages the modelled server serves before it must clear the cursor.
MaxPages == 3

\* ---------------------------------------------------------------- values

Undefined == [undefined |-> TRUE]
Null == [null |-> TRUE]
Str(s) == [str |-> s]

Get(o, k) == IF k \in DOMAIN o THEN o[k] ELSE Undefined

\* o[k] = v on a JavaScript object: overwrite the key or add it
Put(o, k, v) == [x \in (DOMAIN o) \cup {k} |-> IF x = k THEN v ELSE o[x]]

\* JavaScript truthiness of a `string | undefined`
Truthy(v) == v # Undefined /\ v # Str("")

BaseUrls == {"https://abc.live.dynatrace.com", "https://xyz.apps.dynatrace.com"}
ApiTokens == {"dt0c01.SAMPLE"}

EmptyObject == [x \in {} |-> ""]

\* headers a caller may pass (the default parameter value is {})
CallerHeaders ==
  { EmptyObject,
    [x \in {"Content-Type"} |-> "text/plain"],
    [x \in {"Content-type"} |-> "text/plain"],
    [x \in {"content-type"} |-> "text/plain"],
    [Authorization |-> "Basic dXNlcg=="] }

\* headers a caller of paginatedCall may pass
PaginatedHeaders ==
  { EmptyObject,
    [x \in {"Content-type"} |-> "text/plain"] }

CallerParams == {Undefined, [entitySelector |-> "type(HOST)"]}
CallerQueryParams == {Undefined, [overrideAlerts |-> "true"]}
CallerFiles == {Undefined, [file |-> "PK-bytes", name |-> "extension.zip"]}
Methods == {"GET", "POST", "PUT"}

\* the paths the entity service passes
DirectPath == "/api/v2/entities/HOST-1"
ListPath == "/api/v2/entities"

\* ---------------------------------------------------------------- bodies

ErrorDetails ==
  { [code |-> 401, message |-> "Token Authentication failed", constraintViolations |-> <<>>],
    [code |-> 400, message |-> "Constraints violated.",
     constraintViolations |-> <<[path |-> "version", message |-> "must not be null"]>>] }

ErrorEnvelopes == {[error |-> e] : e \in ErrorDetails}

\* what a failing server (or a proxy in front of it) may answer with
ErrorBodies == ErrorEnvelopes \cup {Undefined, [detail |-> "Bad Gateway"]}

Cursors == {"", "k1", "firstCall"}
ItemArrays == {<<"a">>, <<"b", "a">>}

\* the envelopes of a paginated list API: each of the two fields may be absent
Pages ==
  {[entities |-> e, nextPageKey |-> c] : e \in ItemArrays, c \in Cursors}
  \cup {[entities |-> e] : e \in ItemArrays}
  \cup {[nextPageKey |-> c] : c \in Cursors}
  \cup {[totalCount |-> "0"]}

\* ---------------------------------------------------------------- JSON.stringify(v, undefined, 2)

RECURSIVE StringifyViolations(_)
StringifyViolations(vs) ==
  IF vs = <<>> THEN ""
  ELSE "\n      {\n        \"path\": \"" \o Head(vs).path
       \o "\",\n        \"message\": \"" \o Head(vs).message \o "\"\n      }"
       \o (IF Tail(vs) = <<>> THEN "\n    " ELSE ",")
       \o StringifyViolations(Tail(vs))

Stringify(v) ==
  IF v = Undefined THEN "undefined"
  ELSE IF "error" \in DOMAIN v
  THEN "{\n  \"error\": {\n    \"code\": " \o ToString(v.error.code)
       \o ",\n    \"message\": \"" \o v.error.message
       \o "\",\n    \"constraintViolations\": ["
       \o StringifyViolations(v.error.constraintViolations) \o "]\n  }\n}"
  ELSE "{\n  \"detail\": \"" \o v.detail \o "\"\n}"

\* ---------------------------------------------------------------- errors

\* new DynatraceAPIError(message, errorParams)
DynatraceAPIError(message, errorParams) ==
  [name |-> "DynatraceAPIError", message |-> message, errorParams |-> errorParams]

\* what reading a property of undefined throws
TypeError(prop) ==
  [name |-> "TypeError",
   message |-> "Cannot read properties of undefined (reading '" \o prop \o "')"]

\* ---------------------------------------------------------------- makeRequest: building the request

\* if (method === "POST" || method === "PUT") { body = params; params = queryParams; }
RouteBody(method, params) ==
  IF method = "POST" \/ method = "PUT" THEN params ELSE Null

\* RouteParams sending params as the query whatever the method
RouteParamsIgnoringMethod(method, params, queryParams) == params

RouteParams(method, params, queryParams) ==
  IF method = "POST" \/ method = "PUT" THEN queryParams ELSE params

\* if (!("Content-Type" in headers)) headers["Content-type"] = "application/json";
SetContentType(headers) ==
  IF "Content-Type" \notin DOMAIN headers
  THEN Put(headers, "Content-type", "application/json")
  ELSE headers

\* if (files) headers["Content-type"] = "multipart/form-data";
SetFileContentType(headers, files) ==
  IF files # Undefined THEN Put(headers, "Content-type", "multipart/form-data") ELSE headers

\* SetAuthorization leaving a caller's own Authorization in place
SetAuthorizationUnlessPresent(headers, token) ==
  IF "Authorization" \in DOMAIN headers
  THEN headers
  ELSE Put(headers, "Authorization", "Api-Token " \o token)

\* headers.Authorization = `Api-Token ${this.apiToken}`;
SetAuthorization(headers, token) == Put(headers, "Authorization", "Api-Token " \o token)

RequestHeaders(headers, files, token) ==
  SetAuthorization(SetFileContentType(SetContentType(headers), files), token)

\* const form = new FormData(); if (files) form.append("file", files.file, files.name);
Form(files) ==
  IF files # Undefined
  THEN <<[field |-> "file", value |-> files.file, filename |-> files.name]>>
  ELSE <<>>

\* the configuration object passed to axios.request
RequestConfig(base, token, path, params, method, headers, queryParams, files, responseType) ==
  [ url          |-> base \o path,
    headers      |-> RequestHeaders(headers, files, token),
    params       |-> RouteParams(method, params, queryParams),
    method       |-> method,
    data         |-> IF files # Undefined THEN [form |-> Form(files)]
                     ELSE RouteBody(method, params),
    responseType |-> responseType ]

\* ---------------------------------------------------------------- makeRequest: the handlers

\* the first status the .then handler treats as an error
ErrorStatus == 400

Return(v) == [kind |-> "return", value |-> v]
Throw(e) == [kind |-> "throw", value |-> e]

\* .then(res => { if (res.status >= 400) { ... throw ... } return res.data; })
OnFulfilled(res, url) ==
  IF res.status >= ErrorStatus
  THEN IF res.data = Undefined
       THEN Throw(TypeError("error"))      \* errorData.error with errorData undefined
       ELSE Throw(DynatraceAPIError(
                    "Error making request to " \o url \o ": " \o ToString(res.status)
                      \o ". Response: " \o Stringify(res.data),
                    Get(res.data, "error")))
  ELSE Return(res.data)

\* throw new DynatraceAPIError(err.message, err.response.data.error);
ResponseError(err) ==
  IF err.response.data = Undefined
  THEN TypeError("error")                  \* response.data.error with data undefined
  ELSE DynatraceAPIError(err.message, Get(err.response.data, "error"))

\* NoResponseError naming the request's URL instead of the base URL, and dropping the
\* transport's message
NoResponseErrorNamingUrl(err, base) ==
  DynatraceAPIError(
    "No response from server " \o base \o DirectPath,
    [code |-> 0, constraintViolations |-> <<>>, message |-> "No response from server"])

\* throw new DynatraceAPIError(`No response from server ${this.baseUrl}`, {...});
NoResponseError(err, base) ==
  DynatraceAPIError(
    "No response from server " \o base,
    [code |-> 0, constraintViolations |-> <<>>, message |-> err.message])

\* UnexpectedError with only the underlying message in the detail
UnexpectedErrorBareDetail(err, url) ==
  DynatraceAPIError(
    "Error making request to " \o url \o ": " \o err.message \o ".",
    [code |-> 0, constraintViolations |-> <<>>, message |-> err.message])

\* const message = `Error making request to ${url}: ${err.message}.`;
\* throw new DynatraceAPIError(message, {code: 0, constraintViolations: [], message: message});
UnexpectedError(err, url) ==
  LET message == "Error making request to " \o url \o ": " \o err.message \o "."
  IN  DynatraceAPIError(
        message,
        [code |-> 0, constraintViolations |-> <<>>, message |-> message])

\* .catch((err: unknown) => { ... }): branches on the own keys of err
OnRejected(err, url, base) ==
  IF "response" \in DOMAIN err THEN Throw(ResponseError(err))
  ELSE IF "request" \in DOMAIN err THEN Throw(NoResponseError(err, base))
  ELSE Throw(UnexpectedError(err, url))

\* ---------------------------------------------------------------- the transport (axios and the server)

\* responses axios delivers as a fulfilled promise
Responses ==
  {[status |-> 200, data |-> p] : p \in Pages}
  \cup {[status |-> 399, data |-> [totalCount |-> "0"]]}
  \cup {[status |-> 400, data |-> b] : b \in ErrorBodies}
  \cup {[status |-> 401, data |-> b] : b \in ErrorEnvelopes}

\* errors axios rejects with: a response attached, only the request, or neither
Rejections ==
  {[message |-> "Request failed with status code 404", request |-> "ClientRequest",
    response |-> [status |-> 404, data |-> b]] : b \in ErrorBodies}
  \cup {[message |-> m, request |-> "ClientRequest"] :
          m \in {"timeout of 5000ms exceeded", "connect ECONNREFUSED 10.0.0.1:443"}}
  \cup {[message |-> m] : m \in {"Invalid URL", "canceled"}}

\* the error axios rejects with once the signal of a request's configuration is aborted
CanceledError == [message |-> "canceled"]

\* axios watches the signal of the configuration it was given, and nothing else
Cancelled(config) == "signal" \in DOMAIN config /\ aborted

\* ---------------------------------------------------------------- paginatedCall: the loop body

FirstCall == "firstCall"

\* the loop running only while the cursor still holds the first-call marker
LoopContinuesOnMarkerOnly(npk) == npk = Str(FirstCall)

\* while (nextPageKey)
LoopContinues(npk) == Truthy(npk)

\* if (nextPageKey !== "firstCall") { params = { nextPageKey: nextPageKey }; }
NextParams(npk, params) ==
  IF npk # Str(FirstCall) THEN [nextPageKey |-> npk.str] ELSE params

\* nextPageKey = response.nextPageKey;
ReadCursor(response) ==
  IF "nextPageKey" \in DOMAIN response THEN Str(response.nextPageKey) ELSE Undefined

\* PushItems keeping only the latest page's items
PushItemsReplacing(its, response, item) ==
  IF item \in DOMAIN response THEN response[item] ELSE its

\* if (item in response) { items.push(...response[item]); }
PushItems(its, response, item) ==
  IF item \in DOMAIN response THEN its \o response[item] ELSE its

\* ---------------------------------------------------------------- state machine

ItemNames == {"entities", "types"}
ResponseTypes == {Undefined, Str("arraybuffer")}

mrVars == <<mrpc, wire, transport, caught, mrResult>>
pgVars == <<pgpc, items, nextPageKey, pgParams, pgResult, pagesLog>>
session == <<baseUrl, apiToken>>

\* what a single HttpClient call never touches
beyond == <<child, editor, topo, sim, ext>>

\* none of the other components is in use
BeyondIdle ==
  /\ child = Undefined
  /\ editor = Undefined
  /\ topo = Undefined
  /\ sim = Undefined
  /\ ext = Undefined

outside == <<aborted, conc, build, fsys, tenant, events, beyond>>

\* nothing is in use except the one named component
OutsideIdleBut(name) ==
  /\ aborted = FALSE
  /\ conc = Undefined
  /\ build = Undefined
  /\ fsys = Undefined
  /\ tenant = Undefined
  /\ events = <<>>
  /\ name # "child" => child = Undefined
  /\ name # "editor" => editor = Undefined
  /\ name # "topo" => topo = Undefined
  /\ name # "sim" => sim = Undefined
  /\ name # "ext" => ext = Undefined

\* nothing but the HttpClient is running
OutsideIdle ==
  /\ aborted = FALSE
  /\ conc = Undefined
  /\ build = Undefined
  /\ fsys = Undefined
  /\ tenant = Undefined
  /\ events = <<>>
  /\ BeyondIdle

Init ==
  /\ baseUrl \in BaseUrls
  /\ apiToken \in ApiTokens
  /\ api = "none"
  /\ args = Undefined
  /\ headersObj = Undefined
  /\ mrpc = "idle"
  /\ wire = Undefined
  /\ transport = Undefined
  /\ caught = Undefined
  /\ mrResult = Undefined
  /\ pgpc = "idle"
  /\ items = <<>>
  /\ nextPageKey = Undefined
  /\ pgParams = Undefined
  /\ pgResult = Undefined
  /\ sentLog = <<>>
  /\ pagesLog = <<>>
  /\ outstanding = 0
  /\ logs = <<>>
  /\ OutsideIdle

\* logger.debug(`Making ${method} request to ${url} ${params ? ...} ${body ? ...}`)
DebugEntry(config) ==
  [level |-> "debug",
   message |-> "Making " \o config.method \o " request to " \o config.url,
   params |-> config.params,
   body |-> IF config.method = "POST" \/ config.method = "PUT" THEN config.data ELSE Null]

\* what the .then handler logs: logger.error(errorData) before it throws
ThenLogs(res) ==
  IF res.status >= ErrorStatus THEN <<[level |-> "error", what |-> res.data]>> ELSE <<>>

\* what the .catch handler logs: nothing in the response branch, the error in the request
\* branch, the synthesized message in the else branch
CatchLogs(err, url) ==
  IF "response" \in DOMAIN err THEN <<>>
  ELSE IF "request" \in DOMAIN err THEN <<[level |-> "error", what |-> err]>>
  ELSE <<[level |-> "error", what |-> [message |-> UnexpectedError(err, url).message]]>>

\* makeRequest from its entry to axios.request(...): the request is built and handed over
IssueRequest(path, params, method, headers, queryParams, files, responseType) ==
  LET config == RequestConfig(baseUrl, apiToken, path, params, method, headers,
                              queryParams, files, responseType)
  IN  /\ headersObj' = config.headers
      /\ wire' = config
      /\ sentLog' = Append(sentLog, config)
      /\ logs' = Append(logs, DebugEntry(config))
      /\ outstanding' = outstanding + 1
      /\ mrpc' = "inflight"
      /\ transport' = Undefined
      /\ caught' = Undefined
      /\ mrResult' = Undefined

\* a caller invokes makeRequest directly
CallMakeRequest ==
  /\ api = "none"
  /\ \E params \in CallerParams, method \in Methods, headers \in CallerHeaders,
        queryParams \in CallerQueryParams, files \in CallerFiles,
        responseType \in ResponseTypes :
       /\ args' = [path |-> DirectPath, params |-> params, method |-> method,
                   headers |-> headers, queryParams |-> queryParams, files |-> files,
                   responseType |-> responseType]
       /\ IssueRequest(DirectPath, params, method, headers, queryParams, files,
                       responseType)
  /\ api' = "makeRequest"
  /\ UNCHANGED <<session, outside, pgVars>>

\* paginatedCall asking for the first two pages at once, without awaiting the first
CallPaginatedPrefetching ==
  /\ api = "none"
  /\ \E item \in ItemNames, params \in CallerParams, headers \in PaginatedHeaders :
       LET first == RequestConfig(baseUrl, apiToken, ListPath, params, "GET", headers,
                                  Undefined, Undefined, Undefined)
           second == RequestConfig(baseUrl, apiToken, ListPath, [nextPageKey |-> "k1"],
                                   "GET", first.headers, Undefined, Undefined, Undefined)
       IN  /\ args' = [path |-> ListPath, item |-> item, params |-> params,
                       headers |-> headers]
           /\ pgParams' = [nextPageKey |-> "k1"]
           /\ headersObj' = second.headers
           /\ wire' = second
           /\ sentLog' = <<first, second>>
           /\ logs' = <<DebugEntry(first), DebugEntry(second)>>
  /\ outstanding' = 2
  /\ mrpc' = "inflight"
  /\ api' = "paginatedCall"
  /\ items' = <<>>
  /\ nextPageKey' = Str(FirstCall)
  /\ pgpc' = "await"
  /\ UNCHANGED <<session, outside, transport, caught, mrResult, pgResult, pagesLog>>

\* a caller invokes paginatedCall: items = [], nextPageKey = "firstCall", and the first
\* iteration runs up to its await
CallPaginated ==
  /\ api = "none"
  /\ \E item \in ItemNames, params \in CallerParams, headers \in PaginatedHeaders :
       /\ args' = [path |-> ListPath, item |-> item, params |-> params,
                   headers |-> headers]
       /\ pgParams' = NextParams(Str(FirstCall), params)
       /\ IssueRequest(ListPath, NextParams(Str(FirstCall), params), "GET", headers,
                       Undefined, Undefined, Undefined)
  /\ api' = "paginatedCall"
  /\ items' = <<>>
  /\ nextPageKey' = Str(FirstCall)
  /\ pgpc' = "await"
  /\ UNCHANGED <<session, outside, pgResult, pagesLog>>

\* the server may hand out a further cursor only while it has pages left
ServerMayAnswer(res) ==
  (api = "paginatedCall" /\ Len(sentLog) >= MaxPages /\ res.status < ErrorStatus)
    => ~Truthy(ReadCursor(res.data))

\* axios fulfils the promise with a response
TransportFulfils ==
  /\ mrpc = "inflight"
  /\ ~Cancelled(wire)
  /\ \E res \in Responses :
       /\ ServerMayAnswer(res)
       /\ transport' = [settled |-> "fulfilled", value |-> res]
  /\ mrpc' = "then"
  /\ outstanding' = outstanding - 1
  /\ UNCHANGED <<session, outside, api, args, headersObj, wire, caught, mrResult, pgVars,
                 sentLog, logs>>

\* axios rejects the promise
TransportRejects ==
  /\ mrpc = "inflight"
  /\ \E err \in Rejections :
       /\ Cancelled(wire) => err = CanceledError
       /\ transport' = [settled |-> "rejected", value |-> err]
       /\ caught' = err
  /\ mrpc' = "catch"
  /\ outstanding' = outstanding - 1
  /\ UNCHANGED <<session, outside, api, args, headersObj, wire, mrResult, pgVars, sentLog,
                 logs>>

\* the .then handler runs: it returns the data, or throws into the .catch handler
ThenHandler ==
  /\ mrpc = "then"
  /\ LET out == OnFulfilled(transport.value, wire.url)
     IN  IF out.kind = "return"
         THEN /\ mrResult' = [settled |-> "resolved", value |-> out.value]
              /\ mrpc' = "resolved"
              /\ caught' = caught
         ELSE /\ caught' = out.value
              /\ mrpc' = "catch"
              /\ mrResult' = mrResult
  /\ logs' = logs \o ThenLogs(transport.value)
  /\ UNCHANGED <<session, outside, api, args, headersObj, wire, transport, pgVars, sentLog,
                 outstanding>>

\* the .catch handler runs: whatever it throws is what makeRequest rejects with
CatchHandler ==
  /\ mrpc = "catch"
  /\ mrResult' = [settled |-> "rejected",
                  value |-> OnRejected(caught, wire.url, baseUrl).value]
  /\ mrpc' = "rejected"
  /\ logs' = logs \o CatchLogs(caught, wire.url)
  /\ UNCHANGED <<session, outside, api, args, headersObj, wire, transport, caught, pgVars,
                 sentLog, outstanding>>

\* paginatedCall resumes after a page resolved: reads the cursor, pushes the items, and
\* either issues the next request or returns
PageResolved ==
  /\ pgpc = "await"
  /\ mrpc = "resolved"
  /\ LET response == mrResult.value
         npk == ReadCursor(response)
         its == PushItems(items, response, args.item)
     IN  /\ nextPageKey' = npk
         /\ items' = its
         /\ pagesLog' = Append(pagesLog, response)
         /\ IF LoopContinues(npk)
            THEN /\ pgParams' = NextParams(npk, pgParams)
                 /\ IssueRequest(args.path, NextParams(npk, pgParams), "GET", headersObj,
                                 Undefined, Undefined, Undefined)
                 /\ pgpc' = "await"
                 /\ pgResult' = pgResult
            ELSE /\ pgResult' = [settled |-> "resolved", value |-> its]
                 /\ pgpc' = "returned"
                 /\ UNCHANGED <<pgParams, headersObj, mrVars, sentLog, outstanding, logs>>
  /\ UNCHANGED <<session, outside, api, args>>

\* paginatedCall swallowing a page's failure and returning what it has so far
PageRejectedReturningPartial ==
  /\ pgpc = "await"
  /\ mrpc = "rejected"
  /\ pgResult' = [settled |-> "resolved", value |-> items]
  /\ pgpc' = "returned"
  /\ UNCHANGED <<session, outside, api, args, headersObj, mrVars, items, nextPageKey,
                 pgParams, pagesLog, sentLog, outstanding, logs>>

\* paginatedCall resumes after a page rejected: the await throws out of the loop
PageRejected ==
  /\ pgpc = "await"
  /\ mrpc = "rejected"
  /\ pgResult' = [settled |-> "rejected", value |-> mrResult.value]
  /\ pgpc' = "thrown"
  /\ UNCHANGED <<session, outside, api, args, headersObj, mrVars, items, nextPageKey,
                 pgParams, pagesLog, sentLog, outstanding, logs>>

Next ==
  \/ CallMakeRequest
  \/ CallPaginated
  \/ TransportFulfils
  \/ TransportRejects
  \/ ThenHandler
  \/ CatchHandler
  \/ PageResolved
  \/ PageRejected

Spec == Init /\ [][Next]_vars

\* every enabled step is eventually taken: the event loop runs each settled promise's
\* handler, and the modelled server answers every request
FairSpec == Spec /\ WF_vars(Next)

\* the caller of EntityServiceV2.list or get aborts the controller whose signal it handed
\* over, before the call or while a request of it is in flight
CallerAborts ==
  /\ ~aborted
  /\ api = "none" \/ mrpc = "inflight"
  /\ aborted' = TRUE
  /\ UNCHANGED <<session, api, args, headersObj, mrVars, pgVars, sentLog, outstanding,
                 logs, conc, build, fsys, tenant, events, beyond>>

CancelNext ==
  \/ Next
  \/ CallerAborts

\* the HttpClient with a caller that holds an AbortController
CancelSpec == Init /\ [][CancelNext]_vars

\* ---------------------------------------------------------------- two calls on one client

\* no call of the single-caller model is running
ClientIdle ==
  /\ api = "none"
  /\ args = Undefined
  /\ headersObj = Undefined
  /\ mrpc = "idle"
  /\ wire = Undefined
  /\ transport = Undefined
  /\ caught = Undefined
  /\ mrResult = Undefined
  /\ pgpc = "idle"
  /\ items = <<>>
  /\ nextPageKey = Undefined
  /\ pgParams = Undefined
  /\ pgResult = Undefined
  /\ sentLog = <<>>
  /\ pagesLog = <<>>
  /\ outstanding = 0
  /\ logs = <<>>

client == <<api, args, headersObj, mrVars, pgVars, sentLog, outstanding>>

\* the two invocations, and the headers objects their callers hold (by reference)
CallIds == {"A", "B"}
Refs == {"h1", "h2"}

ConcHeaders == {EmptyObject, [x \in {"Content-Type"} |-> "text/plain"]}
ConcMethods == {"GET", "POST"}
ConcParams == [entitySelector |-> "type(HOST)"]
ConcResponses ==
  { [status |-> 200, data |-> [entities |-> <<"a">>]],
    [status |-> 401, data |-> [error |-> [code |-> 401,
                                          message |-> "Token Authentication failed",
                                          constraintViolations |-> <<>>]]] }
ConcRejections == {[message |-> "timeout of 5000ms exceeded", request |-> "ClientRequest"]}

\* an invocation that has not started: its locals do not exist yet
IdleCall ==
  [pc |-> "idle", args |-> Undefined, wire |-> Undefined, transport |-> Undefined,
   caught |-> Undefined, result |-> Undefined]

ConcInit ==
  /\ baseUrl \in BaseUrls
  /\ apiToken \in ApiTokens
  /\ ClientIdle
  /\ aborted = FALSE
  /\ build = Undefined
  /\ fsys = Undefined
  /\ tenant = Undefined
  /\ events = <<>>
  /\ BeyondIdle
  /\ conc \in {[heap0 |-> h, heap |-> h, calls |-> [i \in CallIds |-> IdleCall]] :
                h \in [Refs -> ConcHeaders]}

\* invocation i runs makeRequest from its entry to axios.request(...): the writes to
\* `headers` go to the object the caller passed, and axios takes the configuration as it
\* is at that moment
ConcCall(i) ==
  /\ conc.calls[i].pc = "idle"
  /\ \E ref \in Refs, method \in ConcMethods, files \in CallerFiles :
       LET config == RequestConfig(baseUrl, apiToken, DirectPath, ConcParams, method,
                                   conc.heap[ref], Undefined, files, Undefined)
       IN  /\ conc' = [conc EXCEPT
                         !.heap[ref] = config.headers,
                         !.calls[i] = [pc |-> "inflight",
                                       args |-> [path |-> DirectPath, params |-> ConcParams,
                                                 method |-> method, headers |-> ref,
                                                 files |-> files],
                                       wire |-> config,
                                       transport |-> Undefined,
                                       caught |-> Undefined,
                                       result |-> Undefined]]
           /\ logs' = Append(logs, DebugEntry(config))
  /\ UNCHANGED <<session, client, aborted, build, fsys, tenant, events, beyond>>

\* axios fulfils the promise of invocation i
ConcFulfils(i) ==
  /\ conc.calls[i].pc = "inflight"
  /\ \E res \in ConcResponses :
       conc' = [conc EXCEPT !.calls[i].pc = "then",
                            !.calls[i].transport = [settled |-> "fulfilled", value |-> res]]
  /\ UNCHANGED <<session, client, logs, aborted, build, fsys, tenant, events, beyond>>

\* axios rejects the promise of invocation i
ConcRejects(i) ==
  /\ conc.calls[i].pc = "inflight"
  /\ \E err \in ConcRejections :
       conc' = [conc EXCEPT !.calls[i].pc = "catch",
                            !.calls[i].caught = err,
                            !.calls[i].transport = [settled |-> "rejected", value |-> err]]
  /\ UNCHANGED <<session, client, logs, aborted, build, fsys, tenant, events, beyond>>

\* the .then handler of invocation i
ConcThen(i) ==
  /\ conc.calls[i].pc = "then"
  /\ LET c == conc.calls[i]
         out == OnFulfilled(c.transport.value, c.wire.url)
     IN  /\ conc' = IF out.kind = "return"
                    THEN [conc EXCEPT !.calls[i].pc = "resolved",
                                      !.calls[i].result =
                                         [settled |-> "resolved", value |-> out.value]]
                    ELSE [conc EXCEPT !.calls[i].pc = "catch",
                                      !.calls[i].caught = out.value]
         /\ logs' = logs \o ThenLogs(c.transport.value)
  /\ UNCHANGED <<session, client, aborted, build, fsys, tenant, events, beyond>>

\* the .catch handler of invocation i
ConcCatch(i) ==
  /\ conc.calls[i].pc = "catch"
  /\ LET c == conc.calls[i]
     IN  /\ conc' = [conc EXCEPT
                       !.calls[i].pc = "rejected",
                       !.calls[i].result =
                          [settled |-> "rejected",
                           value |-> OnRejected(c.caught, c.wire.url, baseUrl).value]]
         /\ logs' = logs \o CatchLogs(c.caught, c.wire.url)
  /\ UNCHANGED <<session, client, aborted, build, fsys, tenant, events, beyond>>

ConcNext ==
  \E i \in CallIds :
    \/ ConcCall(i)
    \/ ConcFulfils(i)
    \/ ConcRejects(i)
    \/ ConcThen(i)
    \/ ConcCatch(i)

\* one HttpClient with two invocations of makeRequest in progress
ConcSpec == ConcInit /\ [][ConcNext]_vars

\* ---------------------------------------------------------------- the build workflow: values

\* the number of versions of one extension at which uploadAndActivate deletes one
VersionLimit == 10

\* how many times in a row the tenant may answer an upload with the quantity-limit error
MaxLimitAnswers == 2

\* extension versions, as the sequence of their dot-separated parts
FileVersions == {<<1>>, <<1, 0, 0>>, <<1, 0, 9>>, <<2, 3>>}

\* normalizeExtensionVersion: exactly three parts, missing ones filled with 0
Normalize(v) == [k \in 1..3 |-> IF k <= Len(v) THEN v[k] ELSE 0]

\* incrementExtensionVersion: the last part plus one
Increment(v) == [v EXCEPT ![Len(v)] = v[Len(v)] + 1]

\* what listVersions answers: n versions, oldest first
Listing(n) == [k \in 1..n |-> [version |-> <<1, 0, k - 1>>]]
Listings == {Listing(n) : n \in {0, VersionLimit - 1, VersionLimit, VersionLimit + 1}}

\* String.prototype.startsWith
StartsWith(s, prefix) ==
  /\ Len(s) >= Len(prefix)
  /\ SubSeq(s, 1, Len(prefix)) = prefix

QuantityLimit == "Extension versions quantity limit"

\* the errors a call on dt.extensionsV2 may reject with: an API error whose detail names
\* the quantity limit, an API error with another detail, an API error without detail, and
\* an error that is no API error at all
LimitError ==
  DynatraceAPIError("Request failed with status code 400",
                    [code |-> 400, constraintViolations |-> <<>>,
                     message |-> "Extension versions quantity limit reached: 10"])
OtherError ==
  DynatraceAPIError("Request failed with status code 400",
                    [code |-> 400, message |-> "Constraints violated.",
                     constraintViolations |->
                        <<[path |-> "version", message |-> "must not be null"]>>])
NoDetailError == DynatraceAPIError("Request failed with status code 502", Undefined)
FinalErrors == {OtherError, NoDetailError, TypeError("error")}

\* an error thrown by the file system
FsError == [name |-> "Error", message |-> "EACCES: permission denied"]

\* the workflow before buildExtension is invoked
BuildIdle ==
  [pc |-> "start", fastMode |-> FALSE, dt |-> FALSE, version0 |-> <<>>,
   listed |-> "none", versions |-> <<>>, delFirst |-> "none", delLast |-> "none",
   attempts |-> 0, answer |-> Undefined, uploadStatus |-> "", lastError |-> Undefined,
   activation |-> "none", returned |-> "none"]

BuildInit ==
  /\ baseUrl \in BaseUrls
  /\ apiToken \in ApiTokens
  /\ ClientIdle
  /\ aborted = FALSE
  /\ conc = Undefined
  /\ build = BuildIdle
  /\ fsys \in [distExists : BOOLEAN, fileVersion : FileVersions,
               inStorage : {FALSE}, inDist : {FALSE}]
  /\ tenant \in [versions : Listings, limitLeft : 0..MaxLimitAnswers]
  /\ events = <<>>
  /\ BeyondIdle

Event(kind, arg) == [kind |-> kind, arg |-> arg]

elsewhere == <<session, client, logs, aborted, conc, beyond>>

\* ---------------------------------------------------------------- preBuildTasks

\* .then(ext => ext.map(e => e.version))
ListedVersions(listing) == {listing[k].version : k \in 1..Len(listing)}

\* the clash test comparing the version as written in the file
ClashWithoutNormalizing(listing, version) == version \in ListedVersions(listing)

\* versions.includes(extensionVersion), extensionVersion being the normalized version
Clash(listing, version) == Normalize(version) \in ListedVersions(listing)

\* extension.version = incrementExtensionVersion(normalizeExtensionVersion(extension.version))
Bumped(version) == Increment(Normalize(version))

\* writeFileSync(extensionFile, ...) and the information message after it
WriteBumped(version) ==
  <<Event("write", Bumped(version)),
    Event("info", "Extension version automatically increased.")>>

\* buildExtension is invoked and runs preBuildTasks up to its await (or to its end)
BuildStart ==
  /\ build.pc = "start"
  /\ \E fastMode \in BOOLEAN, dt \in BOOLEAN, mkdirOk \in BOOLEAN :
       /\ fastMode => dt
       /\ LET b == [build EXCEPT !.fastMode = fastMode, !.dt = dt,
                                 !.version0 = fsys.fileVersion]
          IN  IF ~fsys.distExists /\ ~mkdirOk
              THEN /\ build' = [b EXCEPT !.pc = "done"]
                   /\ fsys' = fsys
                   /\ events' = events \o
                        <<Event("error", "Error during pre-build phase: " \o FsError.message)>>
              ELSE /\ fsys' = [fsys EXCEPT !.distExists = TRUE,
                                           !.fileVersion = IF fastMode THEN Bumped(@) ELSE @]
                   /\ events' = events \o
                        (IF fastMode THEN WriteBumped(fsys.fileVersion)
                         ELSE IF dt THEN <<Event("listVersions", "preBuildTasks")>>
                         ELSE <<>>)
                   /\ build' = [b EXCEPT !.pc = IF ~fastMode /\ dt THEN "preList"
                                                ELSE "assemble"]
  /\ UNCHANGED <<elsewhere, tenant>>

\* listVersions settles in preBuildTasks; a rejection counts as no versions
PreBuildListed ==
  /\ build.pc = "preList"
  /\ \E ok \in BOOLEAN :
       LET versions == IF ok THEN tenant.versions ELSE <<>>
           clash == Clash(versions, fsys.fileVersion)
       IN  /\ fsys' = [fsys EXCEPT !.fileVersion = IF clash THEN Bumped(@) ELSE @]
           /\ events' = events \o (IF clash THEN WriteBumped(fsys.fileVersion) ELSE <<>>)
           /\ build' = [build EXCEPT !.pc = "assemble",
                                     !.listed = IF ok THEN "ok" ELSE "failed"]
  /\ UNCHANGED <<elsewhere, tenant>>

\* ---------------------------------------------------------------- package assembly

\* the assembly whose failure is reported without leaving buildExtension
AssembleNotReturning ==
  /\ build.pc = "assemble"
  /\ \E ok \in BOOLEAN :
       /\ fsys' = [fsys EXCEPT !.inStorage = TRUE]
       /\ events' = Append(events,
                           IF ok THEN Event("assemble", fsys.fileVersion)
                           ELSE Event("error", "Error during archiving & signing: "
                                                 \o FsError.message))
       /\ build' = [build EXCEPT !.pc = "packaged"]
  /\ UNCHANGED <<elsewhere, tenant>>

\* assemblePython or assembleStandard: the signed archive lands in workspace storage, or
\* the assembly throws and buildExtension reports it and returns
Assemble ==
  /\ build.pc = "assemble"
  /\ \E ok \in BOOLEAN :
       IF ok
       THEN /\ fsys' = [fsys EXCEPT !.inStorage = TRUE]
            /\ events' = Append(events, Event("assemble", fsys.fileVersion))
            /\ build' = [build EXCEPT !.pc = "packaged"]
       ELSE /\ fsys' = fsys
            /\ events' = Append(events, Event("error", "Error during archiving & signing: "
                                                          \o FsError.message))
            /\ build' = [build EXCEPT !.pc = "done"]
  /\ UNCHANGED <<elsewhere, tenant>>

\* ---------------------------------------------------------------- validateExtension

\* err.errorParams is an object, so that reading a property of it does not throw
HasDetail(err) == "errorParams" \in DOMAIN err /\ err.errorParams # Undefined

\* validateExtension from `if (valid)` to `return valid`, and the prompt that follows a true
\* result in buildExtension; copyFileSync may throw
ValidateFinish(b, valid, ev) ==
  \E copyOk \in BOOLEAN :
    IF valid /\ ~copyOk
    THEN /\ build' = [b EXCEPT !.pc = "done", !.returned = "thrown"]
         /\ fsys' = fsys
         /\ events' = Append(ev, Event("copy", FALSE))
    ELSE /\ build' = [b EXCEPT !.pc = "done",
                               !.returned = IF valid THEN "true" ELSE "false"]
         /\ fsys' = [fsys EXCEPT !.inDist = valid, !.inStorage = FALSE]
         /\ events' = ev \o (IF valid THEN <<Event("copy", TRUE)>> ELSE <<>>)
                         \o <<Event("rm", TRUE)>>
                         \o (IF valid THEN <<Event("prompt", "upload")>> ELSE <<>>)

\* buildExtension enters validateExtension: with a client the validation upload is sent
ValidateStart ==
  /\ build.pc = "packaged"
  /\ ~build.fastMode
  /\ IF build.dt
     THEN /\ build' = [build EXCEPT !.pc = "valUpload"]
          /\ events' = Append(events, Event("validate", TRUE))
          /\ fsys' = fsys
     ELSE ValidateFinish(build, TRUE, events)
  /\ UNCHANGED <<elsewhere, tenant>>

\* the validation upload settles; the .catch handler reads err.errorParams.data
ValidateUploaded ==
  /\ build.pc = "valUpload"
  /\ \/ ValidateFinish([build EXCEPT !.answer = [ok |-> TRUE]], TRUE, events)
     \/ \E err \in FinalErrors \cup {LimitError} :
          LET failed == Append(events, Event("error", "Extension validation failed."))
              b == [build EXCEPT !.answer = err]
          IN  IF HasDetail(err)
              THEN ValidateFinish(b, FALSE, Append(failed, Event("output", err.errorParams)))
              ELSE /\ build' = [b EXCEPT !.pc = "done", !.returned = "thrown"]
                   /\ fsys' = fsys
                   /\ events' = failed
  /\ UNCHANGED <<elsewhere, tenant>>

\* ---------------------------------------------------------------- uploadAndActivate

\* the deletion test firing only above the limit
NeedsDeletionAboveLimit(versions) == Len(versions) > VersionLimit

\* if (existingVersions.length >= 10)
NeedsDeletion(versions) == Len(versions) >= VersionLimit

\* existingVersions[0].version
OldestVersion(versions) == versions[1].version

\* existingVersions[existingVersions.length - 1].version
NewestVersion(versions) == versions[Len(versions)].version

\* the loop repeating on every failed upload
LoopAgainOnAnyFailure(uploadStatus) == uploadStatus # "success"

\* uploadStatus.startsWith("Extension versions quantity limit")
LoopAgain(uploadStatus) == StartsWith(uploadStatus, QuantityLimit)

\* const file = readFileSync(...); then the first upload of the do-while loop
FirstUpload(b, ev) ==
  /\ build' = [b EXCEPT !.pc = "uaUpload", !.attempts = 1]
  /\ events' = Append(ev, Event("upload", 1))
  /\ fsys' = fsys

\* the catch block without the finally block after it
UploadFailedKeepingArchive(b, ev, err) ==
  /\ build' = [b EXCEPT !.pc = "done"]
  /\ events' = ev \o <<Event("status", FALSE), Event("output", Get(err, "errorParams"))>>
  /\ fsys' = fsys

\* the catch block and the finally block: failing status, error details, archive removed
UploadFailed(b, ev, err) ==
  /\ build' = [b EXCEPT !.pc = "done"]
  /\ events' = ev \o <<Event("status", FALSE), Event("output", Get(err, "errorParams")),
                       Event("rm", TRUE)>>
  /\ fsys' = [fsys EXCEPT !.inStorage = FALSE]

\* the end of the try block after a successful upload, and the finally block: activation
\* is requested and not awaited, the archive is copied, the status is set to passing
UploadSucceeded(b, ev) ==
  LET requested == Append(ev, Event("activate", fsys.fileVersion))
      activating == [b EXCEPT !.activation = "pending"]
  IN  \E copyOk \in BOOLEAN :
        IF copyOk
        THEN /\ build' = [activating EXCEPT !.pc = "done"]
             /\ events' = requested \o <<Event("copy", TRUE), Event("status", TRUE),
                                         Event("clear", TRUE), Event("rm", TRUE)>>
             /\ fsys' = [fsys EXCEPT !.inDist = TRUE, !.inStorage = FALSE]
        ELSE UploadFailed(activating, Append(requested, Event("copy", FALSE)), FsError)

\* buildExtension enters uploadAndActivate: the versions on the tenant are asked for
UploadStart ==
  /\ build.pc = "packaged"
  /\ build.fastMode
  /\ build' = [build EXCEPT !.pc = "uaList"]
  /\ events' = Append(events, Event("listVersions", "uploadAndActivate"))
  /\ UNCHANGED <<elsewhere, tenant, fsys>>

\* listVersions settles in uploadAndActivate; a rejection counts as no versions
UploadListed ==
  /\ build.pc = "uaList"
  /\ \E ok \in BOOLEAN :
       LET versions == IF ok THEN tenant.versions ELSE <<>>
           b == [build EXCEPT !.versions = versions,
                              !.listed = IF ok THEN "ok" ELSE "failed"]
       IN  IF NeedsDeletion(versions)
           THEN /\ build' = [b EXCEPT !.pc = "uaDelFirst"]
                /\ events' = Append(events, Event("deleteVersion", OldestVersion(versions)))
                /\ fsys' = fsys
           ELSE FirstUpload(b, events)
  /\ UNCHANGED <<elsewhere, tenant>>

\* the deletion of the oldest version settles; on a rejection the newest is tried
DeletedOldest ==
  /\ build.pc = "uaDelFirst"
  /\ \E ok \in BOOLEAN :
       IF ok
       THEN /\ tenant' = [tenant EXCEPT !.versions = Tail(@)]
            /\ FirstUpload([build EXCEPT !.delFirst = "ok"], events)
       ELSE /\ tenant' = tenant
            /\ build' = [build EXCEPT !.pc = "uaDelLast", !.delFirst = "failed"]
            /\ events' = Append(events, Event("deleteVersion", NewestVersion(build.versions)))
            /\ fsys' = fsys
  /\ UNCHANGED elsewhere

\* the deletion of the newest version settles; its rejection is thrown out of the try block
DeletedNewest ==
  /\ build.pc = "uaDelLast"
  /\ \/ /\ tenant' = [tenant EXCEPT !.versions = SubSeq(@, 1, Len(@) - 1)]
        /\ FirstUpload([build EXCEPT !.delLast = "ok"], events)
     \/ /\ tenant' = tenant
        /\ \E err \in FinalErrors :
             UploadFailed([build EXCEPT !.delLast = "failed"], events, err)
  /\ UNCHANGED elsewhere

\* an upload settles: "success", or the detail message of the error; the loop goes round
\* again (after a timer) or ends
Uploaded ==
  /\ build.pc = "uaUpload"
  /\ \/ /\ tenant' = tenant
        /\ UploadSucceeded([build EXCEPT !.answer = [ok |-> TRUE],
                                         !.uploadStatus = "success"], events)
     \/ \E err \in FinalErrors \cup {LimitError} :
          /\ err = LimitError => tenant.limitLeft > 0
          /\ tenant' = [tenant EXCEPT !.limitLeft = IF err = LimitError THEN @ - 1 ELSE @]
          /\ IF ~HasDetail(err)
             THEN UploadFailed([build EXCEPT !.answer = err, !.lastError = err], events,
                               TypeError("message"))
             ELSE LET b == [build EXCEPT !.answer = err, !.lastError = err,
                                         !.uploadStatus = err.errorParams.message]
                  IN  IF LoopAgain(b.uploadStatus)
                      THEN /\ build' = [b EXCEPT !.pc = "uaWait"]
                           /\ events' = Append(events, Event("wait", 1000))
                           /\ fsys' = fsys
                      ELSE UploadFailed(b, events, err)
  /\ UNCHANGED elsewhere

\* the one-second timer fires and the loop body runs again
UploadRetried ==
  /\ build.pc = "uaWait"
  /\ build' = [build EXCEPT !.pc = "uaUpload", !.attempts = @ + 1]
  /\ events' = Append(events, Event("upload", build.attempts + 1))
  /\ UNCHANGED <<elsewhere, tenant, fsys>>

\* the activation request, which nothing awaits, settles
ActivationSettles ==
  /\ build.activation = "pending"
  /\ \E outcome \in {"ok", "failed"} : build' = [build EXCEPT !.activation = outcome]
  /\ UNCHANGED <<elsewhere, tenant, fsys, events>>

BuildNext ==
  \/ BuildStart
  \/ PreBuildListed
  \/ Assemble
  \/ ValidateStart
  \/ ValidateUploaded
  \/ UploadStart
  \/ UploadListed
  \/ DeletedOldest
  \/ DeletedNewest
  \/ Uploaded
  \/ UploadRetried
  \/ ActivationSettles

\* the build workflow against a tenant and a file system
BuildSpec == BuildInit /\ [][BuildNext]_vars

\* every continuation that is ready runs, the tenant settles every request and the timer
\* fires
FairBuildSpec == BuildSpec /\ WF_vars(BuildNext)

\* ---------------------------------------------------------------- runCommand

\* how many "data" events the child's stderr delivers at most
MaxChunks == 2

Num(n) == [num |-> n]

\* the code the "exit" event carries: a number, or null when a signal ended the process
ExitCodes == {Num(0), Num(1), Num(2), Null}

StderrChunks == {"command not found", "ERROR: bad yaml", "ERROR: build failed+at line 3",
                 "+ trace\r\n"}
StdoutChunks == {"ok"}

\* String.prototype.includes
Includes(s, sub) ==
  \E i \in 0..(Len(s) - Len(sub)) : SubSeq(s, i + 1, i + Len(sub)) = sub

\* String.prototype.indexOf, for a substring that occurs
IndexOf(s, sub) ==
  CHOOSE i \in 0..(Len(s) - Len(sub)) :
    /\ SubSeq(s, i + 1, i + Len(sub)) = sub
    /\ \A j \in 0..(i - 1) : SubSeq(s, j + 1, j + Len(sub)) # sub

\* String.prototype.substring(from), clamped to the length of the string
Substring(s, from) == IF from >= Len(s) THEN "" ELSE SubSeq(s, from + 1, Len(s))

\* s.split("+")[0]
FirstPart(s) == IF Includes(s, "+") THEN SubSeq(s, 1, IndexOf(s, "+")) ELSE s

\* [shortMessage, ...details] = stderr.substring(stderr.indexOf("ERROR") + 7).split("+")
\* when stderr holds both "ERROR" and "+", and shortMessage = stderr otherwise
ShortMessage(stderr) ==
  IF Includes(stderr, "ERROR") /\ Includes(stderr, "+")
  THEN FirstPart(Substring(stderr, IndexOf(stderr, "ERROR") + 7))
  ELSE stderr

Error(message) == [name |-> "Error", message |-> message]

\* resolve(value) or reject(value) on a promise: only the first call settles it
Settle(promise, state, value) ==
  IF promise.state = "pending" THEN [state |-> state, value |-> value] ELSE promise

\* the "exit" handler: if (code !== 0) { ...; reject(Error(shortMessage)); } return resolve(code);
OnExit(promise, code, stderr) ==
  LET rejected == IF code # Num(0)
                  THEN Settle(promise, "rejected", Error(ShortMessage(stderr)))
                  ELSE promise
  IN  Settle(rejected, "resolved", code)

\* how often the exit handler called reject and resolve
SettleCalls(code) == IF code # Num(0) THEN <<"reject", "resolve">> ELSE <<"resolve">>

RunInit ==
  /\ baseUrl \in BaseUrls
  /\ apiToken \in ApiTokens
  /\ ClientIdle
  /\ aborted = FALSE
  /\ conc = Undefined
  /\ build = Undefined
  /\ fsys = Undefined
  /\ tenant = Undefined
  /\ events = <<>>
  /\ editor = Undefined
  /\ topo = Undefined
  /\ sim = Undefined
  /\ ext = Undefined
  /\ child = [pc |-> "running", stdout |-> "", stderr |-> "", chunks |-> 0,
              code |-> Undefined, promise |-> [state |-> "pending", value |-> Undefined],
              calls |-> <<>>, output |-> Undefined]

apart == <<session, client, logs, aborted, conc, build, fsys, tenant, events, editor, topo,
           sim, ext>>

\* p.stdout.on("data", data => (stdout += data.toString()))
StdoutData ==
  /\ child.pc = "running"
  /\ child.chunks < MaxChunks
  /\ \E data \in StdoutChunks :
       child' = [child EXCEPT !.stdout = @ \o data, !.chunks = @ + 1]
  /\ UNCHANGED apart

\* p.stderr.on("data", data => (stderr += data.toString()))
StderrData ==
  /\ child.pc = "running"
  /\ child.chunks < MaxChunks
  /\ \E data \in StderrChunks :
       child' = [child EXCEPT !.stderr = @ \o data, !.chunks = @ + 1]
  /\ UNCHANGED apart

\* p.on("exit", code => ...): the process ends, once
ChildExits ==
  /\ child.pc = "running"
  /\ \E code \in ExitCodes :
       child' = [child EXCEPT
                   !.pc = "exited",
                   !.code = code,
                   !.promise = OnExit(@, code, child.stderr),
                   !.calls = SettleCalls(code),
                   !.output = IF code # Num(0) THEN ShortMessage(child.stderr)
                              ELSE Undefined]
  /\ UNCHANGED apart

RunNext ==
  \/ StdoutData
  \/ StderrData
  \/ ChildExits

\* one invocation of runCommand
RunSpec == RunInit /\ [][RunNext]_vars

\* ---------------------------------------------------------------- getAttributesFromTopology

\* String.prototype.toLowerCase on the type names in use
ToLowerCase(name) ==
  IF name = "Custom:Host" THEN "custom:host"
  ELSE IF name = "CUSTOM:DISK" THEN "custom:disk"
  ELSE name

TypeNames == {"custom:host", "Custom:Host", "CUSTOM:DISK"}
EntityTypes == {"custom:host", "custom:disk"}

IpAttribute == [key |-> "ip", displayName |-> "IP address"]
PortAttribute == [key |-> "port", displayName |-> "Port"]
NameAttribute == [key |-> "name", displayName |-> "Name"]

TopologyRules ==
  { [attributes |-> <<IpAttribute, PortAttribute>>],
    [attributes |-> <<NameAttribute, IpAttribute>>] }

RuleLists == {<<>>} \cup {<<r>> : r \in TopologyRules}
               \cup {<<r, q>> : r \in TopologyRules, q \in TopologyRules}

TopologyTypes == {[name |-> n, rules |-> rs] : n \in TypeNames, rs \in RuleLists}

\* extension.topology.types with at most two types
Extensions ==
  {[topology |-> [types |-> ts]] :
     ts \in {<<>>} \cup {<<t>> : t \in TopologyTypes}
              \cup {<<t, u>> : t \in TopologyTypes, u \in {x \in TopologyTypes : x.rules # <<>>}}}

\* the optional argument excludeKeys: absent, or an array of keys
ExcludeKeys == {Undefined, [keys |-> <<>>], [keys |-> <<"ip">>], [keys |-> <<"port", "name">>]}

Elements(seq) == {seq[k] : k \in 1..Len(seq)}

\* the concatenation, in order, of the sequences of a sequence
RECURSIVE Flat(_)
Flat(seqs) == IF seqs = <<>> THEN <<>> ELSE Head(seqs) \o Flat(Tail(seqs))

\* Array.prototype.map
Map(seq, Op(_)) == [k \in 1..Len(seq) |-> Op(seq[k])]

\* the attribute filter keeping what is not listed in excludeKeys
KeepsUnlessExcluded(excludeKeys, property) ==
  IF excludeKeys # Undefined THEN property.key \notin Elements(excludeKeys.keys) ELSE TRUE

\* .filter((property) => (excludeKeys ? excludeKeys.includes(property.key) : true))
Keeps(excludeKeys, property) ==
  IF excludeKeys # Undefined THEN property.key \in Elements(excludeKeys.keys) ELSE TRUE

\* .filter((type) => type.name.toLowerCase() === entityType)
MatchingTypes(entityType, extension) ==
  SelectSeq(extension.topology.types, LAMBDA type : ToLowerCase(type.name) = entityType)

\* the pairs pushed for one rule
RuleAttributes(rule, excludeKeys) ==
  Map(SelectSeq(rule.attributes, LAMBDA property : Keeps(excludeKeys, property)),
      LAMBDA property : [key |-> property.key, displayName |-> property.displayName])

getAttributesFromTopology(entityType, extension, excludeKeys) ==
  Flat(Map(MatchingTypes(entityType, extension),
           LAMBDA type : Flat(Map(type.rules,
                                  LAMBDA rule : RuleAttributes(rule, excludeKeys)))))

TopoInit ==
  /\ baseUrl \in BaseUrls
  /\ apiToken \in ApiTokens
  /\ ClientIdle
  /\ OutsideIdleBut("topo")
  /\ topo \in [pc : {"called"}, entityType : EntityTypes, extension : Extensions,
               excludeKeys : ExcludeKeys, returned : {<<>>}]

\* the function runs and returns
TopoReturns ==
  /\ topo.pc = "called"
  /\ topo' = [topo EXCEPT
                !.pc = "returned",
                !.returned = getAttributesFromTopology(topo.entityType, topo.extension,
                                                       topo.excludeKeys)]
  /\ UNCHANGED <<session, client, logs, aborted, conc, build, fsys, tenant, events, child,
                 editor, sim, ext>>

TopoNext == TopoReturns

\* one call of getAttributesFromTopology
TopoSpec == TopoInit /\ [][TopoNext]_vars

\* ---------------------------------------------------------------- loadDefaultSimulationConfig

Bool(b) == [bool |-> b]

\* the value {} the tests use for a setting that is merely defined
Object == [object |-> TRUE]

\* the fixture with the target registered for another kind of EEC
remoteTargetOneAgent ==
  [name |-> "mockTarget", address |-> "mockHost", username |-> "mockUser",
   privateKey |-> "mockKey", eecType |-> "ONEAGENT", osType |-> "LINUX"]

\* const remoteTarget = {...}
remoteTarget ==
  [name |-> "mockTarget", address |-> "mockHost", username |-> "mockUser",
   privateKey |-> "mockKey", eecType |-> "ACTIVEGATE", osType |-> "LINUX"]

\* the content of globalStorage/targets.json in the tests
TargetFiles == {<<>>, <<remoteTarget>>}

\* the workspace settings the function reads
WorkspaceSettings ==
  [defaultLocation : {Undefined, Object, Str("LOCAL"), Str("REMOTE"), Str("mockLocation")},
   defaultEecType : {Undefined, Object, Str("ONEAGENT"), Str("ACTIVEGATE"),
                     Str("mockEecType")},
   defaultMetricsIngestion : {Undefined, Object, Bool(FALSE), Bool(TRUE),
                              Str("mockMetricsIngestion")},
   remoteTargetName : {Undefined, Str("mockTarget"), Str("mockTarget2")}]

\* const expected: SimulationConfig = {eecType: "ONEAGENT", location: "LOCAL", sendMetrics: false}
Fallback ==
  [eecType |-> Str("ONEAGENT"), location |-> Str("LOCAL"), sendMetrics |-> Bool(FALSE)]

\* the test cases: the configuration mocked, the targets file mocked, the fields expected
\* and whether the whole value is compared (toEqual)
SimulatorTests ==
  { [config |-> [defaultLocation |-> Str("mockLocation"),
                 defaultEecType |-> Str("mockEecType"),
                 defaultMetricsIngestion |-> Str("mockMetricsIngestion"),
                 remoteTargetName |-> Undefined],
     targets |-> <<>>,
     expected |-> [eecType |-> Str("mockEecType"), location |-> Str("mockLocation"),
                   sendMetrics |-> Str("mockMetricsIngestion"), target |-> Undefined],
     whole |-> FALSE],
    [config |-> [defaultLocation |-> Str("REMOTE"), defaultEecType |-> Str("ACTIVEGATE"),
                 defaultMetricsIngestion |-> Bool(FALSE),
                 remoteTargetName |-> Str("mockTarget")],
     targets |-> <<remoteTarget>>,
     expected |-> [eecType |-> Str("ACTIVEGATE"), location |-> Str("REMOTE"),
                   sendMetrics |-> Bool(FALSE), target |-> remoteTarget],
     whole |-> FALSE] }
  \cup
  { [config |-> c, targets |-> <<remoteTarget>>, expected |-> Fallback, whole |-> TRUE] :
      c \in { [defaultLocation |-> Undefined, defaultEecType |-> Object,
               defaultMetricsIngestion |-> Object, remoteTargetName |-> Undefined],
              [defaultLocation |-> Object, defaultEecType |-> Undefined,
               defaultMetricsIngestion |-> Object, remoteTargetName |-> Undefined],
              [defaultLocation |-> Object, defaultEecType |-> Object,
               defaultMetricsIngestion |-> Undefined, remoteTargetName |-> Undefined],
              [defaultLocation |-> Str("REMOTE"), defaultEecType |-> Str("ONEAGENT"),
               defaultMetricsIngestion |-> Bool(FALSE),
               remoteTargetName |-> Str("mockTarget")],
              [defaultLocation |-> Str("REMOTE"), defaultEecType |-> Str("ACTIVEGATE"),
               defaultMetricsIngestion |-> Bool(FALSE),
               remoteTargetName |-> Str("mockTarget2")] } }

\* the function under test: the settings when all three are defined, with the registered
\* target for a REMOTE location, and the fallback otherwise
loadDefaultSimulationConfig(settings, targets) ==
  LET named == {k \in 1..Len(targets) : Str(targets[k].name) = settings.remoteTargetName}
      config == [eecType |-> settings.defaultEecType,
                 location |-> settings.defaultLocation,
                 sendMetrics |-> settings.defaultMetricsIngestion]
  IN  IF \/ settings.defaultLocation = Undefined
         \/ settings.defaultEecType = Undefined
         \/ settings.defaultMetricsIngestion = Undefined
      THEN Fallback
      ELSE IF settings.defaultLocation # Str("REMOTE") THEN config
      ELSE IF named = {} THEN Fallback
      ELSE LET target == targets[CHOOSE k \in named : \A j \in named : k <= j]
           IN  IF Str(target.eecType) # settings.defaultEecType THEN Fallback
               ELSE [eecType |-> config.eecType, location |-> config.location,
                     sendMetrics |-> config.sendMetrics, target |-> target]

SimInit ==
  /\ baseUrl \in BaseUrls
  /\ apiToken \in ApiTokens
  /\ ClientIdle
  /\ OutsideIdleBut("sim")
  /\ sim \in [pc : {"called"}, settings : WorkspaceSettings, targets : TargetFiles,
              returned : {Undefined}]

\* const actual = loadDefaultSimulationConfig();
SimLoads ==
  /\ sim.pc = "called"
  /\ sim' = [sim EXCEPT !.pc = "returned",
                        !.returned = loadDefaultSimulationConfig(sim.settings, sim.targets)]
  /\ UNCHANGED <<session, client, logs, aborted, conc, build, fsys, tenant, events, child,
                 editor, topo, ext>>

SimNext == SimLoads

\* one call of loadDefaultSimulationConfig under mocked settings and targets
SimSpec == SimInit /\ [][SimNext]_vars

\* ---------------------------------------------------------------- the text-change handler

\* how many editor events (text changes, editor activations) a run of the model holds
MaxEdits == 4

\* the delay of the diagnostics timer, in milliseconds
EditDelay == 500

\* documents open in the workspace, by file name
Documents == {"a/extension/extension.yaml", "b/extension/extension.yaml", "README.md"}

\* String.prototype.endsWith
EndsWith(str, suffix) ==
  /\ Len(str) >= Len(suffix)
  /\ SubSeq(str, Len(str) - Len(suffix) + 1, Len(str)) = suffix

IsExtensionYaml(fileName) == EndsWith(fileName, "extension.yaml")

\* the handler forgetting to cancel the pending timer
ClearedNever(pending, editTimeout) == pending

\* if (editTimeout) { clearTimeout(editTimeout); editTimeout = undefined; }
Cleared(pending, editTimeout) ==
  IF editTimeout # Undefined THEN {t \in pending : t # editTimeout} ELSE pending

EditInit ==
  /\ baseUrl \in BaseUrls
  /\ apiToken \in ApiTokens
  /\ ClientIdle
  /\ OutsideIdleBut("editor")
  /\ editor = [editTimeout |-> Undefined, pending |-> {}, edits |-> 0, yamlChanges |-> 0,
               version |-> [d \in Documents |-> 0], runs |-> <<>>]

aside == <<session, client, logs, aborted, conc, build, fsys, tenant, events, child, topo,
           sim, ext>>

\* onDidChangeTextDocument: a change to an extension.yaml restarts the timer, a change to
\* another document does nothing
TextChanged ==
  /\ editor.edits < MaxEdits
  /\ \E document \in Documents :
       LET changed == [editor EXCEPT !.edits = @ + 1, !.version[document] = @ + 1]
       IN  IF IsExtensionYaml(document)
           THEN LET timer == [id |-> editor.yamlChanges + 1, document |-> document,
                              delay |-> EditDelay]
                IN  editor' = [changed EXCEPT
                                 !.yamlChanges = @ + 1,
                                 !.pending = Cleared(editor.pending, editor.editTimeout)
                                               \cup {timer},
                                 !.editTimeout = timer]
           ELSE editor' = changed
  /\ UNCHANGED aside

\* the timer callback: diagnostics run on the document as it is now, editTimeout is reset
TimerExpires ==
  /\ \E timer \in editor.pending :
       editor' = [editor EXCEPT
                    !.pending = @ \ {timer},
                    !.editTimeout = Undefined,
                    !.runs = Append(@, [by |-> "timer", document |-> timer.document,
                                        version |-> editor.version[timer.document],
                                        started |-> timer.id,
                                        fired |-> editor.yamlChanges])]
  /\ UNCHANGED aside

\* onDidChangeActiveTextEditor: diagnostics run at once for an extension.yaml
EditorActivated ==
  /\ editor.edits < MaxEdits
  /\ \E document \in Documents :
       editor' = [editor EXCEPT
                    !.edits = @ + 1,
                    !.runs = IF IsExtensionYaml(document)
                             THEN Append(@, [by |-> "editor", document |-> document,
                                             version |-> editor.version[document],
                                             started |-> editor.yamlChanges,
                                             fired |-> editor.yamlChanges])
                             ELSE @]
  /\ UNCHANGED aside

EditNext ==
  \/ TextChanged
  \/ TimerExpires
  \/ EditorActivated

\* the editor events of one activation
EditSpec == EditInit /\ [][EditNext]_vars

\* ---------------------------------------------------------------- ExtensionsServiceV1.getExtensions

\* private readonly endpoint = "/api/config/v1/extensions";
ExtensionsEndpoint == "/api/config/v1/extensions"

ExtensionArrays == {<<>>, <<"e1">>, <<"e2", "e1">>}
ExtensionCursors == {"", "k1", "k2"}
Signals == {Undefined, Str("signal")}

\* the bodies a list request may be answered with: each of the two fields may be absent
ExtensionPages ==
  {[extensions |-> e, nextPageKey |-> c] : e \in ExtensionArrays, c \in ExtensionCursors}
  \cup {[extensions |-> e] : e \in ExtensionArrays}
  \cup {[nextPageKey |-> c] : c \in ExtensionCursors}
  \cup {[totalCount |-> "0"]}

\* how a request made with a request object settles: fulfilled with the decoded body of
\* the response, or rejected with an API error
PageAnswers ==
  {[kind |-> "fulfilled", value |-> p] : p \in ExtensionPages}
  \cup {[kind |-> "rejected", value |-> e] : e \in {OtherError, NoDetailError}}

\* { path: this.endpoint, params: { nextPageKey: nextPageKey }, signal }
PageRequest(npk, signal) ==
  [path |-> ExtensionsEndpoint, params |-> [nextPageKey |-> npk], signal |-> signal]

\* what spreading a value that is not iterable throws
NotIterable(what) == [name |-> "TypeError", message |-> what \o " is not iterable"]

\* PushExtensions keeping only the latest page's extensions
PushExtensionsReplacing(extensions, res) ==
  IF "extensions" \in DOMAIN res
  THEN Return(res.extensions)
  ELSE Throw(NotIterable("res.extensions"))

\* extensions.push(...res.extensions);
PushExtensions(extensions, res) ==
  IF "extensions" \in DOMAIN res
  THEN Return(extensions \o res.extensions)
  ELSE Throw(NotIterable("res.extensions"))

ExtInit ==
  /\ baseUrl \in BaseUrls
  /\ apiToken \in ApiTokens
  /\ ClientIdle
  /\ OutsideIdleBut("ext")
  /\ ext = [pc |-> "idle", signal |-> Undefined, extensions |-> <<>>,
            nextPageKey |-> Undefined, sent |-> <<>>, answers |-> <<>>,
            returned |-> Undefined, thrown |-> Undefined]

besides == <<session, client, logs, aborted, conc, build, fsys, tenant, events, child, editor,
             topo, sim>>

\* getExtensions(signal) up to the first await: the locals are initialised and the loop
\* body issues the first request
GetExtensions ==
  /\ ext.pc = "idle"
  /\ \E signal \in Signals :
       ext' = [ext EXCEPT !.pc = "awaiting", !.signal = signal,
                          !.sent = Append(@, PageRequest(Undefined, signal))]
  /\ UNCHANGED besides

\* the awaited request is fulfilled: the rest of the loop body runs, then the loop either
\* issues the next request or the function returns
ExtPageFulfils ==
  /\ ext.pc = "awaiting"
  /\ \E answer \in PageAnswers :
       /\ answer.kind = "fulfilled"
       /\ LoopContinues(ReadCursor(answer.value)) => Len(ext.sent) < MaxPages
       /\ LET res == answer.value
              pushed == PushExtensions(ext.extensions, res)
              npk == ReadCursor(res)
              answered == [ext EXCEPT !.answers = Append(@, answer)]
          IN  IF pushed.kind = "throw"
              THEN ext' = [answered EXCEPT !.pc = "rejected", !.thrown = pushed.value]
              ELSE IF Truthy(npk)
              THEN ext' = [answered EXCEPT
                             !.extensions = pushed.value,
                             !.nextPageKey = npk,
                             !.sent = Append(@, PageRequest(npk, ext.signal))]
              ELSE ext' = [answered EXCEPT
                             !.pc = "resolved",
                             !.extensions = pushed.value,
                             !.nextPageKey = npk,
                             !.returned = [array |-> pushed.value]]
  /\ UNCHANGED besides

\* the awaited request is rejected: the await throws and nothing catches it
ExtPageRejects ==
  /\ ext.pc = "awaiting"
  /\ \E answer \in PageAnswers :
       /\ answer.kind = "rejected"
       /\ ext' = [ext EXCEPT !.pc = "rejected", !.answers = Append(@, answer),
                             !.thrown = answer.value]
  /\ UNCHANGED besides

ExtNext ==
  \/ GetExtensions
  \/ ExtPageFulfils
  \/ ExtPageRejects

\* one call of getExtensions
ExtSpec == ExtInit /\ [][ExtNext]_vars

\* ---------------------------------------------------------------- properties of makeRequest

\* the transport answered with a status >= 400 and a valid error envelope
FulfilledWithEnvelope ==
  /\ transport # Undefined
  /\ transport.settled = "fulfilled"
  /\ transport.value.status >= 400
  /\ transport.value.data \in ErrorEnvelopes

RejectedWithEnvelope ==
  /\ transport # Undefined
  /\ transport.settled = "rejected"
  /\ "response" \in DOMAIN transport.value
  /\ transport.value.response.status >= 400
  /\ transport.value.response.data \in ErrorEnvelopes

IsApiError(e) == e.name = "DynatraceAPIError"

HasDefinedDetail(e) ==
  /\ IsApiError(e)
  /\ e.errorParams # Undefined
  /\ {"code", "message", "constraintViolations"} \subseteq DOMAIN e.errorParams

\* C1: a response with status >= 400 and a valid error envelope makes makeRequest reject
\* with a DynatraceAPIError whose detail is the envelope's error field, both when axios
\* fulfils with the response and when axios rejects with the response attached.
C1_EnvelopeDetailPreserved ==
  /\ (mrpc = "rejected" /\ FulfilledWithEnvelope) =>
        /\ IsApiError(mrResult.value)
        /\ mrResult.value.errorParams = transport.value.data.error
  /\ (mrpc = "rejected" /\ RejectedWithEnvelope) =>
        /\ IsApiError(mrResult.value)
        /\ mrResult.value.errorParams = transport.value.response.data.error

\* the transport rejected with the request attached and no response
RejectedWithoutResponse ==
  /\ transport # Undefined
  /\ transport.settled = "rejected"
  /\ "response" \notin DOMAIN transport.value
  /\ "request" \in DOMAIN transport.value

\* C2: when the request was sent and no response arrived, makeRequest rejects with a
\* DynatraceAPIError whose message is "No response from server " followed by the base
\* URL and whose detail is code 0, no constraint violations, and the transport error's
\* message.
C2_NoResponse ==
  (mrpc = "rejected" /\ RejectedWithoutResponse) =>
     /\ IsApiError(mrResult.value)
     /\ mrResult.value.message = "No response from server " \o baseUrl
     /\ mrResult.value.errorParams.code = 0
     /\ mrResult.value.errorParams.constraintViolations = <<>>
     /\ mrResult.value.errorParams.message = transport.value.message

C2_Witness ==
  /\ mrpc = "rejected"
  /\ RejectedWithoutResponse
  /\ transport.value.message = "timeout of 5000ms exceeded"

\* the .catch handler received a failure with neither a response nor a request
UnexpectedFailure ==
  /\ caught # Undefined
  /\ "response" \notin DOMAIN caught
  /\ "request" \notin DOMAIN caught

SynthesizedMessage == "Error making request to " \o wire.url \o ": " \o caught.message \o "."

\* C3 as stated: an unexpected failure makes makeRequest reject with the message
\* "Error making request to <url>: <underlying message>." and a detail of code 0, no
\* constraint violations, and the underlying failure's message.
C3_DetailIsUnderlyingMessage ==
  (mrpc = "rejected" /\ UnexpectedFailure) =>
     /\ IsApiError(mrResult.value)
     /\ mrResult.value.message = SynthesizedMessage
     /\ mrResult.value.errorParams.code = 0
     /\ mrResult.value.errorParams.constraintViolations = <<>>
     /\ mrResult.value.errorParams.message = caught.message

\* C3 amended: the detail's message is the synthesized message itself, the same string as
\* the error's message, not the bare underlying message.
C3_DetailIsSynthesizedMessage ==
  (mrpc = "rejected" /\ UnexpectedFailure) =>
     /\ IsApiError(mrResult.value)
     /\ mrResult.value.message = SynthesizedMessage
     /\ mrResult.value.errorParams.code = 0
     /\ mrResult.value.errorParams.constraintViolations = <<>>
     /\ mrResult.value.errorParams.message = SynthesizedMessage

C3_Witness ==
  /\ mrpc = "rejected"
  /\ UnexpectedFailure
  /\ transport.settled = "rejected"
  /\ caught.message = "Invalid URL"

\* C4: makeRequest either resolves with the data of a response whose status is below
\* 400, or rejects with a DynatraceAPIError that carries a defined detail; nothing else
\* reaches the caller, whatever the transport did.
C4_OneErrorType ==
  /\ mrpc = "resolved" =>
        /\ transport.settled = "fulfilled"
        /\ transport.value.status < 400
        /\ mrResult = [settled |-> "resolved", value |-> transport.value.data]
  /\ mrpc = "rejected" =>
        /\ mrResult.settled = "rejected"
        /\ HasDefinedDetail(mrResult.value)

\* ---------------------------------------------------------------- properties of paginatedCall

RECURSIVE ConcatItems(_, _)
ConcatItems(pages, item) ==
  IF pages = <<>> THEN <<>>
  ELSE (IF item \in DOMAIN Head(pages) THEN Head(pages)[item] ELSE <<>>)
       \o ConcatItems(Tail(pages), item)

\* C5: when every page request succeeds, paginatedCall returns the concatenation, in page
\* order and within-page order, of the arrays under the item field of the pages fetched;
\* a page without the item field adds nothing and does not end the loop; repeated items
\* are kept.
C5_Concatenation ==
  api = "paginatedCall" =>
     /\ items = ConcatItems(pagesLog, args.item)
     /\ pgpc = "returned" =>
          /\ pgResult = [settled |-> "resolved", value |-> ConcatItems(pagesLog, args.item)]
          /\ \A k \in 1..Len(pagesLog) :
               (args.item \notin DOMAIN pagesLog[k] /\ Truthy(ReadCursor(pagesLog[k])))
                  => k < Len(pagesLog)

\* three pages, the second without the item field, and an item repeated across pages
C5_Witness ==
  /\ pgpc = "returned"
  /\ Len(pagesLog) = 3
  /\ args.item \notin DOMAIN pagesLog[2]
  /\ pgResult.value = <<"b", "a", "a">>

\* C6: the first request of paginatedCall carries the caller's params, and every later
\* request carries exactly {nextPageKey: c} for the cursor c of the page before it,
\* whatever non-empty string c is.
C6_CursorOnlyParams ==
  api = "paginatedCall" =>
     \A i \in 1..Len(sentLog) :
        sentLog[i].params =
           IF i = 1 THEN args.params ELSE [nextPageKey |-> pagesLog[i - 1].nextPageKey]

\* request k+1 exists exactly when page k arrived with a non-empty cursor
C7_RequestsFollowCursors ==
  api = "paginatedCall" =>
     /\ Len(sentLog) <= Len(pagesLog) + 1
     /\ \A k \in 1..Len(pagesLog) :
          (k < Len(sentLog)) <=> Truthy(ReadCursor(pagesLog[k]))
     /\ pgpc = "returned" =>
          /\ Len(sentLog) = Len(pagesLog)
          /\ ~Truthy(ReadCursor(pagesLog[Len(pagesLog)]))

\* C7: paginatedCall issues the request for page k+1 if and only if page k succeeded with
\* a non-empty nextPageKey, stops right after the first page whose nextPageKey is absent
\* or empty (n pages, n requests), and returns once the server serves such a page.
C7_Paging ==
  /\ []C7_RequestsFollowCursors
  /\ (pgpc = "await") ~> (pgpc \in {"returned", "thrown"})

C7_Witness ==
  /\ pgpc = "returned"
  /\ Len(sentLog) = MaxPages
  /\ Len(pagesLog) = MaxPages

C9_OneOutstanding ==
  api = "paginatedCall" =>
     /\ outstanding <= 1
     /\ Len(sentLog) <= Len(pagesLog) + 1
     /\ outstanding = 1 => mrpc = "inflight"

C9_Witness ==
  /\ api = "paginatedCall"
  /\ outstanding = 1
  /\ Len(sentLog) = 2
  /\ Len(pagesLog) = 1

\* ---------------------------------------------------------------- properties of the headers

\* HTTP header names are case-insensitive: the spellings of the content type header
ContentTypeKeys == {"Content-Type", "Content-type", "content-type"}

ContentTypes(h) == {h[k] : k \in (DOMAIN h) \cap ContentTypeKeys}

NoFileAttached == api = "paginatedCall" \/ (api = "makeRequest" /\ args.files = Undefined)

\* C10: without a file attachment the outgoing request carries exactly one content type:
\* the caller's when the caller's headers set one, application/json otherwise.
C10_OneContentType ==
  (wire # Undefined /\ Len(sentLog) = 1 /\ NoFileAttached) =>
     /\ Cardinality((DOMAIN wire.headers) \cap ContentTypeKeys) = 1
     /\ ContentTypes(wire.headers) =
          IF (DOMAIN args.headers) \cap ContentTypeKeys # {}
          THEN ContentTypes(args.headers)
          ELSE {"application/json"}

\* C11: with a file attachment, whatever the method, params and caller headers, the only
\* content type sent is multipart/form-data and the payload is a form with exactly one
\* part, named "file", holding the supplied bytes and filename; no caller body is sent.
C11_FileUpload ==
  (wire # Undefined /\ api = "makeRequest" /\ args.files # Undefined) =>
     /\ ContentTypes(wire.headers) = {"multipart/form-data"}
     /\ Cardinality((DOMAIN wire.headers) \cap ContentTypeKeys) = 1
     /\ wire.data = [form |-> <<[field |-> "file", value |-> args.files.file,
                                 filename |-> args.files.name]>>]

\* C12: every request goes to base URL + path and carries Authorization = "Api-Token " +
\* the session's token, also when the caller's headers hold an Authorization of their own.
C12_UrlAndToken ==
  \A i \in 1..Len(sentLog) :
     /\ sentLog[i].url = baseUrl \o args.path
     /\ "Authorization" \in DOMAIN sentLog[i].headers
     /\ sentLog[i].headers["Authorization"] = "Api-Token " \o apiToken

C12_Witness ==
  /\ api = "makeRequest"
  /\ "Authorization" \in DOMAIN args.headers
  /\ wire # Undefined
  /\ wire.headers["Authorization"] = "Api-Token dt0c01.SAMPLE"

IsBodyMethod(method) == method \in {"POST", "PUT"}

\* C13 as stated: for POST and PUT params is the request body and queryParams the URL
\* query; for every other method params is the URL query, the body is empty and
\* queryParams is not sent.
C13_RoutesByMethod ==
  (wire # Undefined /\ api = "makeRequest") =>
     IF IsBodyMethod(args.method)
     THEN wire.data = args.params /\ wire.params = args.queryParams
     ELSE wire.params = args.params /\ wire.data = Null

\* C13 amended: the routing of the URL query is as stated; the body is as stated when no
\* file is attached, and with a file attached the payload is the form, for every method.
C13_RoutesByMethodUnlessFile ==
  (wire # Undefined /\ api = "makeRequest") =>
     /\ wire.params = IF IsBodyMethod(args.method) THEN args.queryParams ELSE args.params
     /\ args.files = Undefined =>
          wire.data = IF IsBodyMethod(args.method) THEN args.params ELSE Null
     /\ args.files # Undefined => wire.data = [form |-> Form(args.files)]

C13_Witness ==
  /\ api = "makeRequest"
  /\ wire # Undefined
  /\ args.method = "PUT"
  /\ args.files = Undefined
  /\ args.params = [entitySelector |-> "type(HOST)"]
  /\ args.queryParams = [overrideAlerts |-> "true"]
  /\ wire.data = [entitySelector |-> "type(HOST)"]
  /\ wire.params = [overrideAlerts |-> "true"]

\* ---------------------------------------------------------------- properties of the log

IsDebug(entry) == entry.level = "debug"

\* C15: on every failure path of makeRequest an error-level entry is logged before the
\* error reaches the caller, and every call logs a debug-level entry before the request
\* is transmitted.
C15_FailuresLogged ==
  /\ Len(SelectSeq(logs, IsDebug)) = Len(sentLog)
  /\ mrpc = "rejected" => logs[Len(logs)].level = "error"

\* ---------------------------------------------------------------- cancellation

\* the settled promise of the call the caller made
CallResult ==
  IF api = "makeRequest" THEN mrResult
  ELSE IF api = "paginatedCall" THEN pgResult
  ELSE Undefined

\* C14: when the caller cancels before the call or while a request of it (any page of a
\* paginated call included) is in flight, the call fails instead of returning a normal
\* response
C14_CancelledCallFails ==
  (aborted /\ CallResult # Undefined) => CallResult.settled = "rejected"

\* ---------------------------------------------------------------- concurrent invocations

\* the request invocation c sends when no other invocation touches what it was given
AloneConfig(c) ==
  RequestConfig(baseUrl, apiToken, c.args.path, c.args.params, c.args.method,
                conc.heap0[c.args.headers], Undefined, c.args.files, Undefined)

\* the result invocation c settles with, alone, on the answer its request got
AloneResult(c) ==
  LET url == AloneConfig(c).url
      failed(err) == [settled |-> "rejected", value |-> OnRejected(err, url, baseUrl).value]
  IN  IF c.transport.settled = "rejected" THEN failed(c.transport.value)
      ELSE LET out == OnFulfilled(c.transport.value, url)
           IN  IF out.kind = "return" THEN [settled |-> "resolved", value |-> out.value]
               ELSE failed(out.value)

\* C16: in every interleaving of two invocations of makeRequest on one client, each
\* invocation's outgoing request and result are those of the invocation running alone
C16_NoInterference ==
  \A i \in CallIds :
    LET c == conc.calls[i]
    IN  /\ c.pc # "idle" => c.wire = AloneConfig(c)
        /\ c.pc \in {"resolved", "rejected"} => c.result = AloneResult(c)

\* the invocations that were handed headers objects of their own
OwnHeaders ==
  \A i, j \in CallIds :
    (i # j /\ conc.calls[i].pc # "idle" /\ conc.calls[j].pc # "idle")
      => conc.calls[i].args.headers # conc.calls[j].args.headers

\* two invocations that share nothing they were given do not interfere
C16_NoInterferenceOwnHeaders == OwnHeaders => C16_NoInterference

\* the client's base URL and token never change
C16_SessionImmutable == [][baseUrl' = baseUrl /\ apiToken' = apiToken]_vars

\* ---------------------------------------------------------------- properties of the build workflow

\* the arguments of the events of one kind, in the order they happened
ArgsOf(kind) ==
  LET pick[k \in 0..Len(events)] ==
        IF k = 0 THEN <<>>
        ELSE IF events[k].kind = kind THEN Append(pick[k - 1], events[k].arg)
        ELSE pick[k - 1]
  IN  pick[Len(events)]

Happened(kind) == \E k \in 1..Len(events) : events[k].kind = kind

\* every event of the first kind happened before every event of the second kind
AllBefore(first, second) ==
  \A i, j \in 1..Len(events) :
    (events[i].kind = first /\ events[j].kind = second) => i < j

\* uploadAndActivate has received the answer to its listVersions call
Listed == build.fastMode /\ build.listed # "none"

\* C17: in uploadAndActivate, when the listing shows 10 or more versions, the oldest is
\* deleted, or the newest if that deletion fails, before any upload is attempted; when both
\* deletions fail nothing is uploaded or activated and the build is reported as failing;
\* when fewer than 10 versions are listed, or the listing fails, nothing is deleted
C17_DeletionBeforeUpload ==
  Listed =>
    LET deleted == ArgsOf("deleteVersion")
        listing == build.versions
    IN  IF build.listed = "ok" /\ Len(listing) >= 10
        THEN /\ Len(deleted) >= 1 /\ deleted[1] = listing[1].version
             /\ build.delFirst \in {"none", "ok"} => Len(deleted) = 1
             /\ build.delFirst = "ok" => tenant.versions = Tail(listing)
             /\ build.delFirst = "failed" =>
                  /\ Len(deleted) = 2
                  /\ deleted[2] = listing[Len(listing)].version
             /\ build.delLast = "ok" =>
                  tenant.versions = SubSeq(listing, 1, Len(listing) - 1)
             /\ Happened("upload") => (build.delFirst = "ok" \/ build.delLast = "ok")
             /\ AllBefore("deleteVersion", "upload")
             /\ (build.delFirst = "failed" /\ build.delLast = "failed") =>
                  /\ ~Happened("upload")
                  /\ ~Happened("activate")
                  /\ ArgsOf("status") = <<FALSE>>
        ELSE /\ deleted = <<>>
             /\ tenant.versions \in Listings

\* the oldest version could not be deleted, the newest was, and the upload went ahead
C17_Witness ==
  /\ Listed
  /\ Len(build.versions) >= 10
  /\ build.delFirst = "failed"
  /\ build.delLast = "ok"
  /\ Happened("upload")

\* the tenant answered the upload with an error whose detail message names the quantity
\* limit
IsLimitAnswer(answer) ==
  /\ HasDetail(answer)
  /\ Len(answer.errorParams.message) >= 33
  /\ SubSeq(answer.errorParams.message, 1, 33) = "Extension versions quantity limit"

\* one attempt of the loop: it goes on to wait one second exactly when the answer names
\* the quantity limit, and ends otherwise; after the wait the upload is repeated
LoopStep ==
  /\ build.pc = "uaUpload" =>
       IF IsLimitAnswer(build'.answer)
       THEN /\ build'.pc = "uaWait"
            /\ events' = Append(events, Event("wait", 1000))
       ELSE /\ build'.pc = "done"
            /\ ~(\E k \in Len(events) + 1..Len(events') : events'[k].kind = "upload")
  /\ build.pc = "uaWait" =>
       /\ build'.pc = "uaUpload"
       /\ events' = Append(events, Event("upload", build.attempts + 1))

\* C18: the upload loop of uploadAndActivate repeats the upload, one second apart, exactly
\* as long as the answer is an error whose detail message starts with "Extension versions
\* quantity limit": it ends on the first other answer, so it terminates once the tenant
\* stops answering so, and never ends while it keeps doing so
C18_UploadLoop ==
  /\ [][LoopStep]_vars
  /\ (build.pc = "uaUpload") ~> (build.pc = "done")

\* the loop went round after a quantity-limit answer and ended on a successful upload
C18_Witness ==
  /\ build.pc = "done"
  /\ build.attempts >= 2
  /\ IsLimitAnswer(build.lastError)
  /\ build.uploadStatus = "success"

\* validateExtension was entered and is over
Validated == ~build.fastMode /\ build.pc = "done" /\ Happened("assemble")

\* C19: validateExtension returns true if and only if no client is connected or the
\* validation upload succeeded; the archive is in dist if and only if the result is true;
\* the archive is removed from workspace storage on every path
C19_Validation ==
  Validated =>
    /\ build.returned = "true" <=> (~build.dt \/ build.answer = [ok |-> TRUE])
    /\ fsys.inDist <=> build.returned = "true"
    /\ ~fsys.inStorage

\* the same, on the paths where neither copyFileSync nor the .catch handler throws
C19_ValidationUnlessThrown ==
  (Validated /\ build.returned # "thrown") => 
    /\ build.returned = "true" <=> (~build.dt \/ build.answer = [ok |-> TRUE])
    /\ fsys.inDist <=> build.returned = "true"
    /\ ~fsys.inStorage

\* preBuildTasks has returned (it did not throw)
PreBuilt ==
  /\ build.pc \notin {"start", "preList"}
  /\ \A k \in 1..Len(events) :
       events[k].kind = "error" =>
         events[k].arg # "Error during pre-build phase: " \o FsError.message

\* the version strings the tenant listed to preBuildTasks; a failed listing lists none
ListedToPreBuild ==
  IF build.listed = "ok"
  THEN {tenant.versions[k].version : k \in 1..Len(tenant.versions)}
  ELSE {}

\* C20: preBuildTasks leaves the dist folder existing; with forceIncrement it increments
\* the version once; otherwise, with a client, it increments the version once if and only
\* if the normalized version is among the versions listed on the tenant (a failed listing
\* lists none); with neither, the extension file is left unchanged
C20_PreBuild ==
  PreBuilt =>
    LET before == build.version0
        once == Increment(Normalize(before))
        increments == (build.fastMode
                         \/ (build.dt /\ Normalize(before) \in ListedToPreBuild))
    IN  /\ fsys.distExists
        /\ fsys.fileVersion = IF increments THEN once ELSE before
        /\ ArgsOf("write") = IF increments THEN <<once>> ELSE <<>>

\* a version written with one part clashed, once normalized, with a version on the tenant
C20_Witness ==
  /\ PreBuilt
  /\ ~build.fastMode
  /\ build.dt
  /\ build.listed = "ok"
  /\ build.version0 = <<1>>
  /\ fsys.fileVersion = <<1, 0, 1>>

\* ---------------------------------------------------------------- properties of runCommand

\* C21: when the child process exits the promise of runCommand settles, once: it resolves
\* with the exit code (a number, or null when the process exited without a code) on
\* success and rejects with an Error carrying the short message of stderr when the command
\* failed with a non-zero code
C21_SettlesWithExitCode ==
  child.pc = "exited" =>
    IF child.code \in {Num(0), Null}
    THEN child.promise = [state |-> "resolved", value |-> child.code]
    ELSE child.promise = [state |-> "rejected",
                          value |-> Error(ShortMessage(child.stderr))]

\* the promise settles once, resolves only on exit code 0 and rejects otherwise
C21_ResolvesOnlyOnZero ==
  /\ child.pc = "running" => child.promise.state = "pending"
  /\ child.pc = "exited" =>
       IF child.code = Num(0)
       THEN child.promise = [state |-> "resolved", value |-> Num(0)]
       ELSE child.promise = [state |-> "rejected",
                             value |-> Error(ShortMessage(child.stderr))]

\* ---------------------------------------------------------------- properties of getAttributesFromTopology

\* every attribute of every rule of the matching types, in declaration order
AllAttributes(entityType, extension) ==
  Flat(Map(MatchingTypes(entityType, extension),
           LAMBDA type : Flat(Map(type.rules, LAMBDA rule : rule.attributes))))

\* C22: getAttributesFromTopology returns the (key, displayName) pair of every attribute of
\* every rule of the matching types, in declaration order, leaving out, when excludeKeys is
\* given, the attributes whose key is in excludeKeys
C22_AttributesExceptExcluded ==
  topo.pc = "returned" =>
    topo.returned =
      SelectSeq(AllAttributes(topo.entityType, topo.extension),
                LAMBDA attribute :
                  topo.excludeKeys = Undefined
                    \/ attribute.key \notin Elements(topo.excludeKeys.keys))

\* without excludeKeys every attribute is returned
C22_AllWithoutExcludeKeys ==
  (topo.pc = "returned" /\ topo.excludeKeys = Undefined) =>
    topo.returned = AllAttributes(topo.entityType, topo.extension)

\* ---------------------------------------------------------------- properties of loadDefaultSimulationConfig

\* the expectations of a test case hold of the returned value
Expected(test, actual) ==
  IF test.whole THEN actual = test.expected
  ELSE \A field \in DOMAIN test.expected : Get(actual, field) = test.expected[field]

\* the three settings are defined and, for a REMOTE location, the named target is
\* registered with the configured kind of EEC
SettingsConsistent ==
  /\ sim.settings.defaultLocation # Undefined
  /\ sim.settings.defaultEecType # Undefined
  /\ sim.settings.defaultMetricsIngestion # Undefined
  /\ sim.settings.defaultLocation = Str("REMOTE") =>
       \E k \in 1..Len(sim.targets) :
         /\ Str(sim.targets[k].name) = sim.settings.remoteTargetName
         /\ Str(sim.targets[k].eecType) = sim.settings.defaultEecType

TimerRuns == SelectSeq(editor.runs, LAMBDA run : run.by = "timer")

\* a change to an extension.yaml leaves exactly the timer it started pending
Restarts ==
  editor'.yamlChanges # editor.yamlChanges =>
    /\ editor'.pending = {editor'.editTimeout}
    /\ editor'.editTimeout.id = editor'.yamlChanges
    /\ editor'.editTimeout.delay = 500
    /\ editor'.runs = editor.runs

\* C24: at most one diagnostics timer is pending; a change to an extension.yaml cancels the
\* pending timer and starts a new one; a timer runs diagnostics only if no extension.yaml
\* changed since it was started, so a burst of changes causes one run, for the last change
C24_Debounce ==
  /\ [](/\ Cardinality(editor.pending) <= 1
        /\ editor.pending = IF editor.editTimeout = Undefined THEN {}
                            ELSE {editor.editTimeout}
        /\ \A k \in 1..Len(TimerRuns) :
             /\ TimerRuns[k].started = TimerRuns[k].fired
             /\ \A j \in 1..Len(TimerRuns) : j < k => TimerRuns[j].started < TimerRuns[k].started
        /\ (editor.pending = {} /\ editor.yamlChanges > 0) =>
             /\ Len(TimerRuns) >= 1
             /\ TimerRuns[Len(TimerRuns)].started = editor.yamlChanges
             /\ TimerRuns[Len(TimerRuns)].version =
                  editor.version[TimerRuns[Len(TimerRuns)].document])
  /\ [][Restarts]_vars

\* a burst of three changes, none of the earlier timers expiring, ended in one run
C24_Witness ==
  /\ editor.yamlChanges = 3
  /\ editor.pending = {}
  /\ Len(TimerRuns) = 1
  /\ TimerRuns[1].started = 3

\* ---------------------------------------------------------------- properties of buildExtension

PreBuildFailure == "Error during pre-build phase: " \o FsError.message
AssemblyFailure == "Error during archiving & signing: " \o FsError.message

\* the phase an event belongs to: 1 pre-build, 2 assembly, 3 validation or upload and
\* activation; 0 for the report of a failed phase
PhaseOf(event) ==
  IF event.kind = "error"
  THEN IF event.arg \in {PreBuildFailure, AssemblyFailure} THEN 0 ELSE 3
  ELSE IF event.kind \in {"write", "info"} THEN 1
  ELSE IF event.kind = "listVersions" THEN (IF event.arg = "preBuildTasks" THEN 1 ELSE 3)
  ELSE IF event.kind = "assemble" THEN 2
  ELSE 3

Failed(message) ==
  \E k \in 1..Len(events) : events[k].kind = "error" /\ events[k].arg = message

InPhase(n) == \E k \in 1..Len(events) : PhaseOf(events[k]) = n

\* what only validateExtension does, and what only uploadAndActivate does
ValidationEvent(event) ==
  \/ event.kind = "prompt"
  \/ event.kind = "validate"
  \/ event.kind = "error" /\ event.arg = "Extension validation failed."
UploadEvent(event) ==
  \/ event.kind \in {"deleteVersion", "upload", "activate", "status", "wait", "clear"}
  \/ event.kind = "listVersions" /\ event.arg = "uploadAndActivate"

\* C25: buildExtension runs pre-build, then assembly, then validation (normal mode) or
\* upload and activation (fast mode); a failed pre-build stops it before any assembly, a
\* failed assembly before any validation or upload; the upload prompt is shown only in
\* normal mode and only when validateExtension returned true
C25_PhaseOrder ==
  /\ \A i, j \in 1..Len(events) :
       (i < j /\ PhaseOf(events[i]) # 0 /\ PhaseOf(events[j]) # 0)
         => PhaseOf(events[i]) <= PhaseOf(events[j])
  /\ InPhase(3) => InPhase(2)
  /\ InPhase(2) => build.pc \notin {"start", "preList"}
  /\ Failed(PreBuildFailure) => (~InPhase(2) /\ ~InPhase(3) /\ build.pc = "done")
  /\ Failed(AssemblyFailure) => (~InPhase(2) /\ ~InPhase(3) /\ build.pc = "done")
  /\ \A k \in 1..Len(events) :
       /\ ValidationEvent(events[k]) => ~build.fastMode
       /\ UploadEvent(events[k]) => build.fastMode
  /\ Happened("prompt") => (~build.fastMode /\ build.returned = "true")

\* normal mode: the archive was validated against the tenant and the prompt was shown
C25_Witness ==
  /\ ~build.fastMode
  /\ build.dt
  /\ Happened("validate")
  /\ Happened("prompt")

\* ---------------------------------------------------------------- properties of uploadAndActivate

\* uploadAndActivate was entered and is over
Uploading == build.fastMode /\ Happened("listVersions")
UploadOver == Uploading /\ build.pc = "done"

\* C26: activation is requested only after an upload succeeded, and the build is reported
\* as passing only when the extension was uploaded and its activation completed
\* successfully; a failed upload or a failed activation is reported as a failing build
C26_PassingOnlyWhenActivated ==
  Uploading =>
    /\ Happened("activate") =>
         (build.answer = [ok |-> TRUE] /\ AllBefore("upload", "activate"))
    /\ (\E k \in 1..Len(events) : events[k].kind = "status" /\ events[k].arg) =>
         (build.answer = [ok |-> TRUE] /\ build.activation = "ok")
    /\ (build.pc = "done" /\ build.activation = "failed") =>
         (\E k \in 1..Len(events) : events[k].kind = "status" /\ ~events[k].arg)

\* activation is requested only after a successful upload, and the build is reported as
\* passing only after the upload succeeded and the activation was requested
C26_PassingOnlyWhenUploaded ==
  Uploading =>
    /\ Happened("activate") =>
         (build.answer = [ok |-> TRUE] /\ AllBefore("upload", "activate"))
    /\ (\E k \in 1..Len(events) : events[k].kind = "status" /\ events[k].arg) =>
         (build.answer = [ok |-> TRUE] /\ build.activation # "none")

\* C27: on every path through uploadAndActivate the archive is removed from workspace
\* storage at the end, the status bar is updated exactly once, and the archive is in dist
\* only if the status was passing
C27_CleanupAndStatus ==
  /\ Uploading =>
       /\ Len(ArgsOf("status")) <= 1
       /\ fsys.inDist => ArgsOf("status") = <<TRUE>>
  /\ UploadOver =>
       /\ ~fsys.inStorage
       /\ Len(ArgsOf("status")) = 1

\* the upload succeeded and copying the archive into dist failed
C27_Witness ==
  /\ UploadOver
  /\ build.answer = [ok |-> TRUE]
  /\ ArgsOf("copy") = <<FALSE>>
  /\ ArgsOf("status") = <<FALSE>>
  /\ ~fsys.inStorage

\* ---------------------------------------------------------------- frame of makeRequest

\* C28: after a call of makeRequest, on success and on failure, the headers object the
\* caller passed holds exactly the entries it held before the call
C28_CallerHeadersUnchanged ==
  (api # "none" /\ mrpc \in {"resolved", "rejected"}) => headersObj = args.headers

\* ---------------------------------------------------------------- properties of getExtensions

Fulfilled(answer) == answer.kind = "fulfilled"
Continues(answer) ==
  /\ Fulfilled(answer)
  /\ "extensions" \in DOMAIN answer.value
  /\ "nextPageKey" \in DOMAIN answer.value
  /\ answer.value.nextPageKey # ""
ExtensionsOf(answer) == answer.value.extensions

\* the page requests go out one at a time, the first without a cursor value and each later
\* one with the cursor of the page before it
OneAtATime ==
  /\ Len(ext.sent) = Len(ext.answers) + (IF ext.pc = "awaiting" THEN 1 ELSE 0)
  /\ \A k \in 1..Len(ext.sent) :
       /\ ext.sent[k].path = ExtensionsEndpoint
       /\ ext.sent[k].signal = ext.signal
       /\ DOMAIN ext.sent[k].params = {"nextPageKey"}
       /\ ext.sent[k].params.nextPageKey =
            IF k = 1 THEN Undefined ELSE Str(ext.answers[k - 1].value.nextPageKey)

\* every answer but the last is a page that has an extensions array and a cursor
AllButLastContinue ==
  \A k \in 1..Len(ext.answers) - 1 : Continues(ext.answers[k])

\* C29: getExtensions issues page requests one at a time, the first with no cursor value
\* and each later one with the nextPageKey of the preceding page; it goes on exactly while
\* the pages have a non-empty nextPageKey, returns the concatenation in order of every
\* page's extensions, and fails, returning nothing, as soon as a page request is rejected
\* or a page has no extensions array
C29_GetExtensions ==
  ext.pc # "idle" =>
    LET n == Len(ext.answers)
    IN  /\ OneAtATime
        /\ AllButLastContinue
        /\ ext.pc = "awaiting" <=> (n = 0 \/ Continues(ext.answers[n]))
        /\ ext.pc = "resolved" <=>
             (n > 0 /\ Fulfilled(ext.answers[n]) /\ ~Continues(ext.answers[n])
                    /\ "extensions" \in DOMAIN ext.answers[n].value)
        /\ ext.pc = "resolved" =>
             /\ ext.returned = [array |-> Flat(Map(ext.answers, ExtensionsOf))]
             /\ ext.thrown = Undefined
        /\ ext.pc = "rejected" <=>
             (n > 0 /\ (~Fulfilled(ext.answers[n])
                        \/ "extensions" \notin DOMAIN ext.answers[n].value))
        /\ ext.pc = "rejected" =>
             /\ ext.returned = Undefined
             /\ ext.thrown = IF Fulfilled(ext.answers[n])
                             THEN NotIterable("res.extensions")
                             ELSE ext.answers[n].value
        /\ ext.pc = "awaiting" => ext.returned = Undefined /\ ext.thrown = Undefined

\* two pages were fetched, the second asked for with the cursor of the first, and the
\* call returned the extensions of the first followed by those of the second
C29_Witness ==
  /\ ext # Undefined
  /\ ext.pc = "resolved"
  /\ Len(ext.sent) = 2
  /\ ext.sent[2].params.nextPageKey = Str("k1")
  /\ ext.answers[1].value.extensions = <<"e2", "e1">>
  /\ ext.answers[2].value.extensions = <<"e1">>
  /\ ext.returned = [array |-> <<"e2", "e1", "e1">>]

\* a page without an extensions array after a good page: the call failed and the
\* extensions of the first page were not returned
C29_FailureWitness ==
  /\ ext # Undefined
  /\ ext.pc = "rejected"
  /\ Len(ext.answers) = 2
  /\ ext.extensions = <<"e1">>
  /\ ext.returned = Undefined

====
